---- MODULE Spec2Model ----
(***************************************************************************)
(* Appointment materialisation and pricing engine of the pet scheduler     *)
(* (src/app.py).  The engine is a set of synchronous functions over        *)
(* in-memory values; each group of functions is checked under its own      *)
(* specification whose initial states enumerate the inputs:                *)
(*   SpecPrice  calculate_appointment_price                                *)
(*   SpecRecur  generate_recurring_dates                                   *)
(*   SpecGen    generate_appointments_from_sections                        *)
(*   SpecRecurLoop  the two loops of generate_recurring_dates, step by step*)
(*   SpecList   calculate_invoice_data and the price preview               *)
(*   SpecDur    get_duration_options                                       *)
(*   SpecMonths add_months                                                 *)
(*   SpecFormat format_duration_minutes                                    *)
(*   SpecFilter get_unique_months, filter_appointments_by_month            *)
(*   SpecForm   the create-appointment form, run by run                    *)
(*                                                                         *)
(* Encoding of Python values:                                              *)
(*   - None is the empty tuple <<>>; a value v of an attribute that may    *)
(*     be None is the one-element tuple <<v>>.                             *)
(*   - a dict is a function whose DOMAIN is the set of its keys, so        *)
(*     d.get(k, default) tests k \in DOMAIN d.                             *)
(*   - a text that the code tokenises or parses is a sequence of           *)
(*     one-character strings; other texts are strings.                     *)
(*   - a date is its proleptic ordinal (date.toordinal()), so that         *)
(*     date + timedelta(days=n) is integer addition.                       *)
(*   - an amount of money is an integer number of hundredths.              *)
(***************************************************************************)
EXTENDS Integers, Sequences, FiniteSets, TLC

VARIABLES
    pc,                   \* position of the computation under check
    apt,                  \* calculate_appointment_price: the appointment
    merged_services,      \* calculate_appointment_price: the joined catalog rows
    cbd_dtype,            \* dtype of the catalog's charge_block_duration column
    price,                \* calculate_appointment_price: the returned value
    start_date,           \* generate_recurring_dates arguments
    end_date,
    frequency,
    every,
    days_of_week,
    dates,                \* generate_recurring_dates: the returned list
    appointment_sections, \* st.session_state['appointment_sections']
    appointments,         \* generate_appointments_from_sections: the returned list
    cur_week_start,       \* generate_recurring_dates: locals of the two loops
    cur_week_count,
    cur_date,
    services_df,          \* rows of services.csv as load_csv returns them
    service_types_df,     \* rows of service_types.csv as load_csv returns them
    filtered_appointments,\* render_appointments_list_tab: the appointments shown
    invoice_data,         \* calculate_invoice_data: the returned list
    preview_prices,       \* render_appointments_list_tab: price of each appointment
    service_type_id,      \* get_duration_options argument
    duration_options,     \* get_duration_options: the returned list
    am_start_date,        \* add_months arguments
    am_months,
    am_result,            \* add_months: the returned date
    fmt_minutes,          \* format_duration_minutes argument
    duration_display,     \* format_duration_minutes: the returned text
    preview_appointments, \* render_appointments_list_tab: all appointments
    unique_months,        \* get_unique_months: the returned list
    selected_month,       \* the month filter's selection
    month_filtered,       \* filter_appointments_by_month: the returned list
    render_position       \* render_create_appointment_sidebar: index of the section to render next

vars == <<pc, apt, merged_services, cbd_dtype, price, start_date, end_date,
          frequency, every, days_of_week, dates, appointment_sections,
          appointments, cur_week_start, cur_week_count, cur_date,
          services_df, service_types_df, filtered_appointments, invoice_data,
          preview_prices, service_type_id, duration_options,
          am_start_date, am_months, am_result, fmt_minutes, duration_display,
          preview_appointments, unique_months, selected_month, month_filtered,
          render_position>>

priceVars == <<apt, merged_services, cbd_dtype, price>>
recurVars == <<start_date, end_date, frequency, every, days_of_week, dates>>
genVars == <<appointment_sections, appointments>>
loopVars == <<cur_week_start, cur_week_count, cur_date>>
catalogVars == <<services_df, service_types_df>>
batchVars == <<filtered_appointments, invoice_data, preview_prices>>
durVars == <<service_type_id, duration_options>>
utilVars == <<am_start_date, am_months, am_result, fmt_minutes, duration_display>>
monthVars == <<preview_appointments, unique_months, selected_month, month_filtered>>
formVars == <<render_position>>
restVars == <<utilVars, monthVars, formVars>>
auxVars == <<loopVars, catalogVars, batchVars, durVars, restVars>>

None == <<>>

(***************************************************************************)
(* Bounds of the model.                                                    *)
(***************************************************************************)
MaxRows == 2
MaxDate == 23
MaxEvery == 3
MaxSections == 2
MaxCustomers == 2

(***************************************************************************)
(* Text helpers: str.strip, str.lower, str.split, int(word).               *)
(***************************************************************************)
Whitespace == {" "}

UpperCase == <<"A","B","C","D","E","F","G","H","I","J","K","L","M",
               "N","O","P","Q","R","S","T","U","V","W","X","Y","Z">>
LowerCase == <<"a","b","c","d","e","f","g","h","i","j","k","l","m",
               "n","o","p","q","r","s","t","u","v","w","x","y","z">>
Digits == <<"0","1","2","3","4","5","6","7","8","9">>

Idx(n) == [i \in 1..n |-> i]

Range(s) == {s[i] : i \in DOMAIN s}

LowerChar(c) ==
    IF \E i \in 1..26 : UpperCase[i] = c
    THEN LowerCase[CHOOSE i \in 1..26 : UpperCase[i] = c]
    ELSE c

Lower(s) == [i \in 1..Len(s) |-> LowerChar(s[i])]

RECURSIVE LStrip(_)
LStrip(s) == IF s # <<>> /\ Head(s) \in Whitespace THEN LStrip(Tail(s)) ELSE s

RECURSIVE RStrip(_)
RStrip(s) ==
    IF s # <<>> /\ s[Len(s)] \in Whitespace
    THEN RStrip(SubSeq(s, 1, Len(s) - 1))
    ELSE s

Strip(s) == RStrip(LStrip(s))

\* str.split(): the maximal runs of non-whitespace characters, in order.
RECURSIVE SplitFrom(_, _, _)
SplitFrom(s, word, words) ==
    IF s = <<>>
    THEN IF word = <<>> THEN words ELSE Append(words, word)
    ELSE IF Head(s) \in Whitespace
         THEN SplitFrom(Tail(s), <<>>,
                        IF word = <<>> THEN words ELSE Append(words, word))
         ELSE SplitFrom(Tail(s), Append(word, Head(s)), words)

Split(s) == SplitFrom(s, <<>>, <<>>)

IsDigit(c) == \E i \in 1..10 : Digits[i] = c

DigitVal(c) == (CHOOSE i \in 1..10 : Digits[i] = c) - 1

\* int(word) succeeds on an optional sign followed by decimal digits.
IntParses(word) ==
    LET body == IF word # <<>> /\ Head(word) \in {"+", "-"} THEN Tail(word) ELSE word
    IN  body # <<>> /\ \A i \in 1..Len(body) : IsDigit(body[i])

RECURSIVE DigitsVal(_, _)
DigitsVal(body, acc) ==
    IF body = <<>> THEN acc
    ELSE DigitsVal(Tail(body), 10 * acc + DigitVal(Head(body)))

IntOf(word) ==
    IF Head(word) = "-" THEN 0 - DigitsVal(Tail(word), 0)
    ELSE IF Head(word) = "+" THEN DigitsVal(Tail(word), 0)
    ELSE DigitsVal(word, 0)

\* The loop "for word in s.split(): try int(word) ... except ValueError: continue":
\* the first token that parses, None when no token parses.
RECURSIVE FirstInt(_)
FirstInt(words) ==
    IF words = <<>> THEN None
    ELSE IF IntParses(Head(words)) THEN <<IntOf(Head(words))>>
    ELSE FirstInt(Tail(words))

\* 'Tier' in price_tier
Contains(s, sub) ==
    \E i \in 1..(Len(s) - Len(sub) + 1) : SubSeq(s, i, i + Len(sub) - 1) = sub

(***************************************************************************)
(* Pricing resolver: calculate_price_rate and calculate_appointment_price. *)
(* A catalog row is a record                                               *)
(*   [name, charge_block_duration, number_of_pets, recommended_customer_rate]*)
(* where recommended_customer_rate is [numeric, cents]: float() of the     *)
(* field succeeds with value cents/100 when numeric, and raises otherwise. *)
(***************************************************************************)

\* Series.astype(str) of the charge_block_duration column: an int64 column
\* prints 60 as "60", a float64 column prints it as "60.0".
AsTypeStr(v, dtype) ==
    IF dtype = "float64" THEN ToString(v) \o ".0" ELSE ToString(v)

\* service.get('recommended_customer_rate', 0) is 0 when the row has no
\* such field; float() of a field that is not a number raises and the
\* function returns 0.0.
calculate_price_rate(service, tier) ==
    IF "recommended_customer_rate" \notin DOMAIN service THEN 0 + tier
    ELSE IF service.recommended_customer_rate.numeric
    THEN service.recommended_customer_rate.cents + tier
    ELSE 0

\* Appointment side: first integer token of the text, 1 when none parses.
ApptPetsNum(pets_str) ==
    LET n == FirstInt(Split(pets_str))
    IN  IF n = None THEN 1 ELSE n[1]

extract_pets_num_default1(service_pets_str) ==
    LET n == FirstInt(Split(Lower(Strip(service_pets_str))))
    IN  IF n = None THEN <<1>> ELSE n

\* Catalog side: first integer token of the text, None when none parses.
extract_pets_num(service_pets_str) ==
    FirstInt(Split(Lower(Strip(service_pets_str))))

TypeDurationMatches_no_duration(a, ms, dtype) ==
    SelectSeq(Idx(Len(ms)), LAMBDA i : ms[i].name = a.service_type)

\* Rows, as positions in input order, with the appointment's service type
\* and charge_block_duration equal, as strings, to its duration.
TypeDurationMatches(a, ms, dtype) ==
    SelectSeq(Idx(Len(ms)),
              LAMBDA i : /\ ms[i].name = a.service_type
                         /\ AsTypeStr(ms[i].charge_block_duration, dtype)
                                = ToString(a.duration[1]))

ExactMatches(matching, ms, pets_str) ==
    SelectSeq(matching, LAMBDA i : Lower(Strip(ms[i].number_of_pets)) = pets_str)

NumMatches(matching, ms, pets_num) ==
    SelectSeq(matching,
              LAMBDA i : extract_pets_num(ms[i].number_of_pets) = <<pets_num>>)

PetsFilter_numeric_first(matching, ms, pets_str, pets_num) ==
    LET exact_matches == ExactMatches(matching, ms, pets_str)
        num_matches == NumMatches(matching, ms, pets_num)
    IN  IF num_matches # <<>> THEN num_matches
        ELSE IF exact_matches # <<>> THEN exact_matches
        ELSE matching

\* The rows kept by the number_of_pets step: the exact matches if any, else
\* the numeric matches if any, else matching_services is left as it was.
PetsFilter(matching, ms, pets_str, pets_num) ==
    LET exact_matches == ExactMatches(matching, ms, pets_str)
        num_matches == NumMatches(matching, ms, pets_num)
    IN  IF exact_matches # <<>> THEN exact_matches
        ELSE IF num_matches # <<>> THEN num_matches
        ELSE matching

PriceTierWord == <<"T","i","e","r">>

TierNum_untiered(price_tier) == 1

\* int(price_tier.split()[-1]) if 'Tier' in price_tier else 1
TierNum(price_tier) ==
    IF Contains(price_tier, PriceTierWord)
    THEN LET words == Split(price_tier) IN IntOf(words[Len(words)])
    ELSE 1

\* Position in merged_services of the row iloc[0] of the final
\* matching_services; 0 when the function returns before selecting a row.
SelectedRow(a, ms, dtype) ==
    IF a.duration = None THEN 0
    ELSE LET pets_str == Lower(Strip(a.number_of_pets))
             matching == TypeDurationMatches(a, ms, dtype)
             final == PetsFilter(matching, ms, pets_str, ApptPetsNum(pets_str))
         IN  IF matching = <<>> THEN 0
             ELSE IF final = <<>> THEN 0
             ELSE final[1]

calculate_appointment_price(a, ms, dtype) ==
    LET k == SelectedRow(a, ms, dtype)
    IN  IF k = 0 THEN None
        ELSE <<calculate_price_rate(ms[k], TierNum(a.price_tier))>>

(***************************************************************************)
(* Inputs of the pricing resolver.                                         *)
(***************************************************************************)
T_1pet == <<"1"," ","p","e","t">>
T_2pets == <<"2"," ","p","e","t","s">>
T_3pets == <<"3"," ","p","e","t","s">>
T_2 == <<"2">>
T_pets == <<"p","e","t","s">>
T_dogs == <<"d","o","g","s">>
T_2PetsPadded == <<" ","2"," ","P","e","t","s"," ">>
T_1PetPadded == <<" ","1"," ","P","e","t">>

PriceTier1 == <<"P","r","i","c","e"," ","T","i","e","r"," ","1">>
PriceTier2 == <<"P","r","i","c","e"," ","T","i","e","r"," ","2">>
PriceTier3 == <<"P","r","i","c","e"," ","T","i","e","r"," ","3">>

AptPetTexts == {T_2, T_2pets, T_3pets, T_pets, T_1PetPadded}
RowPetTexts == {T_1pet, T_2pets, T_2, T_dogs, T_2PetsPadded}

\* The fields of an appointment that calculate_appointment_price reads.
PricedAppointments ==
    [service_type : {"Walk"},
     duration : {None, <<60>>},
     number_of_pets : AptPetTexts,
     price_tier : {PriceTier1, PriceTier2, PriceTier3}]

RowShapes ==
    [name : {"Walk", "Board"},
     charge_block_duration : {30, 60},
     number_of_pets : RowPetTexts]

\* Row i of a catalog carries the rate i*10.00, so that the price tells
\* which row it was computed from.
CatalogOf(shapes) ==
    [i \in 1..Len(shapes) |->
        [name |-> shapes[i].name,
         charge_block_duration |-> shapes[i].charge_block_duration,
         number_of_pets |-> shapes[i].number_of_pets,
         recommended_customer_rate |-> [numeric |-> TRUE, cents |-> 1000 * i]]]

Catalogs == {CatalogOf(shapes) : shapes \in UNION {[1..n -> RowShapes] : n \in 0..MaxRows}}

IdleApt ==
    [service_type |-> "Walk", duration |-> None, number_of_pets |-> T_1pet,
     price_tier |-> PriceTier1]

PriceIdle ==
    /\ apt = IdleApt
    /\ merged_services = <<>>
    /\ cbd_dtype = "int64"
    /\ price = None

RecurIdle ==
    /\ start_date = 1
    /\ end_date = 1
    /\ frequency = "week"
    /\ every = 1
    /\ days_of_week = <<>>
    /\ dates = <<>>

GenIdle ==
    /\ appointment_sections = <<>>
    /\ appointments = <<>>

LoopIdle ==
    /\ cur_week_start = 0
    /\ cur_week_count = 0
    /\ cur_date = 0

CatalogIdle ==
    /\ services_df = <<>>
    /\ service_types_df = <<>>

BatchIdle ==
    /\ filtered_appointments = <<>>
    /\ invoice_data = <<>>
    /\ preview_prices = <<>>

DurIdle ==
    /\ service_type_id = 0
    /\ duration_options = <<>>

UtilIdle ==
    /\ am_start_date = <<>>
    /\ am_months = 0
    /\ am_result = <<>>
    /\ fmt_minutes = 0
    /\ duration_display = <<>>

MonthIdle ==
    /\ preview_appointments = <<>>
    /\ unique_months = <<>>
    /\ selected_month = <<>>
    /\ month_filtered = <<>>

FormIdle == render_position = 0

RestIdle == UtilIdle /\ MonthIdle /\ FormIdle

AuxIdle == LoopIdle /\ CatalogIdle /\ BatchIdle /\ DurIdle /\ RestIdle

(***************************************************************************)
(* SpecPrice: one call of calculate_appointment_price.                     *)
(***************************************************************************)
PriceInit ==
    /\ pc = "price_ready"
    /\ apt \in PricedAppointments
    /\ merged_services \in Catalogs
    /\ cbd_dtype \in {"int64", "float64"}
    /\ price = None
    /\ RecurIdle
    /\ GenIdle
    /\ AuxIdle

CalculateAppointmentPrice ==
    /\ pc = "price_ready"
    /\ price' = calculate_appointment_price(apt, merged_services, cbd_dtype)
    /\ pc' = "price_done"
    /\ UNCHANGED <<apt, merged_services, cbd_dtype, recurVars, genVars>>
    /\ UNCHANGED auxVars

PriceNext == CalculateAppointmentPrice

SpecPrice == PriceInit /\ [][PriceNext]_vars

(***************************************************************************)
(* Properties of calculate_appointment_price.                              *)
(***************************************************************************)
\* Positions of the rows with the appointment's service type and a
\* charge_block_duration whose string equals the string of its duration.
Filtered ==
    IF apt.duration = None THEN {}
    ELSE {i \in 1..Len(merged_services) :
            /\ merged_services[i].name = apt.service_type
            /\ AsTypeStr(merged_services[i].charge_block_duration, cbd_dtype)
                   = ToString(apt.duration[1])}

NormalisedText(t) == Lower(Strip(t))

ExactRows ==
    {i \in Filtered : NormalisedText(merged_services[i].number_of_pets)
                          = NormalisedText(apt.number_of_pets)}

HasIntToken(t) == \E k \in 1..Len(Split(NormalisedText(t))) :
                      IntParses(Split(NormalisedText(t))[k])

FirstIntToken(t) ==
    LET words == Split(NormalisedText(t))
        k == CHOOSE k \in 1..Len(words) :
                 /\ IntParses(words[k])
                 /\ \A j \in 1..(k - 1) : ~IntParses(words[j])
    IN  IntOf(words[k])

\* The cardinal as the specification describes it: 1 when no token parses.
CardinalDefault1(t) == IF HasIntToken(t) THEN FirstIntToken(t) ELSE 1

\* Rows whose own first integer token equals the appointment's cardinal.
NumericRows ==
    {i \in Filtered : /\ HasIntToken(merged_services[i].number_of_pets)
                      /\ FirstIntToken(merged_services[i].number_of_pets)
                             = CardinalDefault1(apt.number_of_pets)}

\* Rows whose cardinal, with the default of 1, equals the appointment's.
NumericRowsDefault1 ==
    {i \in Filtered : CardinalDefault1(merged_services[i].number_of_pets)
                          = CardinalDefault1(apt.number_of_pets)}

MinOf(S) == CHOOSE i \in S : \A j \in S : i <= j

TierOfLabel(label) ==
    CASE label = PriceTier1 -> 1
      [] label = PriceTier2 -> 2
      [] label = PriceTier3 -> 3

PriceFromRow(i) ==
    <<merged_services[i].recommended_customer_rate.cents + TierOfLabel(apt.price_tier)>>

\* C1: when rows match service type and duration but none of them matches
\* number_of_pets, by exact text or by numeric cardinal, the result is None.
C1_NoPetsMatchReturnsNone ==
    (pc = "price_done" /\ Filtered # {} /\ ExactRows = {} /\ NumericRowsDefault1 = {})
        => price = None

\* C3: the first exact-text row is selected when one exists, even after a
\* row that matches only numerically; otherwise the first row whose
\* extracted number equals the appointment's is selected.
C3_ExactThenNumericFirstRow ==
    pc = "price_done" =>
        /\ ExactRows # {} => price = PriceFromRow(MinOf(ExactRows))
        /\ (ExactRows = {} /\ NumericRows # {}) => price = PriceFromRow(MinOf(NumericRows))

C3_Witness ==
    /\ pc = "price_done"
    /\ ExactRows # {}
    /\ \E i \in NumericRows \ ExactRows : i < MinOf(ExactRows)
    /\ price = PriceFromRow(MinOf(ExactRows))

\* C4 as stated: with no exact match, the cardinal defaults to 1 on both
\* sides, so the first filtered row whose defaulted cardinal equals the
\* appointment's is selected, a row without integer token included.
C4_CardinalDefaultsOnBothSides ==
    (pc = "price_done" /\ ExactRows = {} /\ NumericRowsDefault1 # {})
        => price = PriceFromRow(MinOf(NumericRowsDefault1))

\* C4 amended: the appointment's cardinal defaults to 1, a row's does not:
\* with no exact match, the first filtered row whose own first integer
\* token equals the appointment's cardinal is selected, and a row without
\* integer token is passed over in favour of it.
C4_CardinalDefaultOnAppointmentOnly ==
    (pc = "price_done" /\ ExactRows = {} /\ NumericRows # {})
        => /\ price = PriceFromRow(MinOf(NumericRows))
           /\ HasIntToken(merged_services[MinOf(NumericRows)].number_of_pets)

C4_Witness ==
    /\ pc = "price_done"
    /\ ~HasIntToken(apt.number_of_pets)
    /\ ExactRows = {}
    /\ NumericRows # {}
    /\ \E i \in Filtered : /\ i < MinOf(NumericRows)
                           /\ ~HasIntToken(merged_services[i].number_of_pets)
    /\ price = PriceFromRow(MinOf(NumericRows))

\* C5: no duration, or no row with the service type and duration, gives
\* None (not 0); every number returned is the price of a filtered row.
C5_NoMatchIsNoneNotZero ==
    pc = "price_done" =>
        /\ (apt.duration = None \/ Filtered = {}) => (price = None /\ price # <<0>>)
        /\ price # None => \E i \in Filtered : price = PriceFromRow(i)

C5_Witness ==
    /\ pc = "price_done"
    /\ apt.duration # None
    /\ \E i \in 1..Len(merged_services) : merged_services[i].name = apt.service_type
    /\ Filtered = {}
    /\ price = None

(***************************************************************************)
(* Recurrence date generator: generate_recurring_dates.                    *)
(***************************************************************************)
DayNames == <<"Monday", "Tuesday", "Wednesday", "Thursday", "Friday",
              "Saturday", "Sunday">>

days_mapping ==
    [Monday |-> 0, Tuesday |-> 1, Wednesday |-> 2, Thursday |-> 3,
     Friday |-> 4, Saturday |-> 5, Sunday |-> 6]

\* date.weekday(): 0 = Monday .. 6 = Sunday; ordinal 1 (0001-01-01) is a Monday.
Weekday(d) == (d + 6) % 7

\* date.strftime('%A')
WeekdayName(d) == DayNames[Weekday(d) + 1]

SortDates_identity(ds) == ds

\* list.sort() on dates
SortDates(ds) == SortSeq(ds, LAMBDA a, b : a < b)

WeekDates_no_lower_bound(current_week_start, start, end, days) ==
    SelectSeq([k \in 1..Len(days) |-> current_week_start + days_mapping[days[k]]],
              LAMBDA check_date : check_date <= end)

WeekDates_no_upper_bound(current_week_start, start, end, days) ==
    SelectSeq([k \in 1..Len(days) |-> current_week_start + days_mapping[days[k]]],
              LAMBDA check_date : check_date >= start)

\* The inner loop over days_of_week for one processed week: the dates
\* appended, in the order of days_of_week.
WeekDates(current_week_start, start, end, days) ==
    SelectSeq([k \in 1..Len(days) |-> current_week_start + days_mapping[days[k]]],
              LAMBDA check_date : check_date >= start /\ check_date <= end)

\* The "while True" loop of the weekly branch: the body runs, then the loop
\* stops when the next week starts after end_date.
RECURSIVE WeekLoop(_, _, _, _, _, _, _)
WeekLoop(current_week_start, week_count, acc, start, end, n, days) ==
    LET added == IF week_count % n = 0
                 THEN acc \o WeekDates(current_week_start, start, end, days)
                 ELSE acc
    IN  IF current_week_start + 7 > end
        THEN added
        ELSE WeekLoop(current_week_start + 7, week_count + 1, added, start, end, n, days)

RECURSIVE StepLoop_day_filtered(_, _, _, _, _, _)
StepLoop_day_filtered(current_date, acc, end, freq, n, days) ==
    IF current_date <= end
    THEN LET added == IF days = <<>>
                      THEN Append(acc, current_date)
                      ELSE IF WeekdayName(current_date) \in Range(days)
                           THEN Append(acc, current_date)
                           ELSE acc
         IN  IF freq = "day"
                  THEN StepLoop_day_filtered(current_date + n, added, end, freq, n, days)
             ELSE IF freq = "month"
                  THEN StepLoop_day_filtered(current_date + 30 * n, added, end, freq, n, days)
             ELSE IF freq = "year"
                  THEN StepLoop_day_filtered(current_date + 365 * n, added, end, freq, n, days)
             ELSE added
    ELSE acc

RECURSIVE StepLoop_month_31(_, _, _, _, _, _)
StepLoop_month_31(current_date, acc, end, freq, n, days) ==
    IF current_date <= end
    THEN LET added == IF freq = "day" \/ days = <<>>
                      THEN Append(acc, current_date)
                      ELSE IF WeekdayName(current_date) \in Range(days)
                           THEN Append(acc, current_date)
                           ELSE acc
         IN  IF freq = "day"
                  THEN StepLoop_month_31(current_date + n, added, end, freq, n, days)
             ELSE IF freq = "month"
                  THEN StepLoop_month_31(current_date + 31 * n, added, end, freq, n, days)
             ELSE IF freq = "year"
                  THEN StepLoop_month_31(current_date + 365 * n, added, end, freq, n, days)
             ELSE added
    ELSE acc

\* The "while current_date <= end_date" loop of the other frequencies.
RECURSIVE StepLoop(_, _, _, _, _, _)
StepLoop(current_date, acc, end, freq, n, days) ==
    IF current_date <= end
    THEN LET added == IF freq = "day" \/ days = <<>>
                      THEN Append(acc, current_date)
                      ELSE IF WeekdayName(current_date) \in Range(days)
                           THEN Append(acc, current_date)
                           ELSE acc
         IN  IF freq = "day" THEN StepLoop(current_date + n, added, end, freq, n, days)
             ELSE IF freq = "month"
                  THEN StepLoop(current_date + 30 * n, added, end, freq, n, days)
             ELSE IF freq = "year"
                  THEN StepLoop(current_date + 365 * n, added, end, freq, n, days)
             ELSE added
    ELSE acc

generate_recurring_dates(start, end, freq, n, days) ==
    IF freq = "week"
    THEN SortDates(WeekLoop(start - Weekday(start), 0, <<>>, start, end, n, days))
    ELSE SortDates(StepLoop(start, <<>>, end, freq, n, days))

(***************************************************************************)
(* SpecRecur: one call of generate_recurring_dates.                        *)
(***************************************************************************)
MaxStart == 9

Frequencies == {"day", "week", "month", "year", "fortnight"}

DayLists ==
    {<<>>, <<"Monday">>, <<"Sunday">>, <<"Monday", "Wednesday">>,
     <<"Wednesday", "Monday">>, <<"Tuesday", "Friday", "Sunday">>, DayNames}

\* End dates before, at and shortly after the start and, for the
\* frequencies that step by 30 or 365 days, one and two steps away.
EndDates(start, freq) ==
    (0..MaxDate) \cup (IF freq = "month" THEN {start + 30, start + 60}
                       ELSE IF freq = "year" THEN {start + 365, start + 730}
                       ELSE {})

RecurInit ==
    /\ pc = "recur_ready"
    /\ start_date \in 1..MaxStart
    /\ frequency \in Frequencies
    /\ end_date \in EndDates(start_date, frequency)
    /\ every \in 1..MaxEvery
    /\ days_of_week \in DayLists
    /\ dates = <<>>
    /\ PriceIdle
    /\ GenIdle
    /\ AuxIdle

GenerateRecurringDates ==
    /\ pc = "recur_ready"
    /\ dates' = generate_recurring_dates(start_date, end_date, frequency, every,
                                         days_of_week)
    /\ pc' = "recur_done"
    /\ UNCHANGED <<start_date, end_date, frequency, every, days_of_week,
                   priceVars, genVars>>
    /\ UNCHANGED auxVars

RecurNext == GenerateRecurringDates

SpecRecur == RecurInit /\ [][RecurNext]_vars

(***************************************************************************)
(* Properties of generate_recurring_dates.                                 *)
(***************************************************************************)
MondayOf(d) == d - ((d + 6) % 7)

WeekIndex(d) == (MondayOf(d) - MondayOf(start_date)) \div 7

WeeklyExpected ==
    {d \in start_date..end_date :
        /\ DayNames[((d + 6) % 7) + 1] \in Range(days_of_week)
        /\ WeekIndex(d) % every = 0}

\* C2: with frequency week the output is exactly the dates of
\* [start_date, end_date] on a selected weekday in a week whose index,
\* counted from start_date's week, is a multiple of every.
C2_WeeklyDatesExact ==
    (pc = "recur_done" /\ frequency = "week") =>
        /\ Range(dates) = WeeklyExpected
        /\ Len(dates) = Cardinality(WeeklyExpected)

\* every = 2 over more than two weeks, a selected weekday that precedes
\* start_date in its week, and an emitted date on another weekday than
\* start_date's.
C2_Witness ==
    /\ pc = "recur_done"
    /\ frequency = "week"
    /\ every = 2
    /\ \E d \in MondayOf(start_date)..(start_date - 1) :
           DayNames[((d + 6) % 7) + 1] \in Range(days_of_week)
    /\ \E d \in Range(dates) : (d + 6) % 7 # (start_date + 6) % 7
    /\ \E d \in Range(dates) : WeekIndex(d) = 2
    /\ \E d \in start_date..end_date :
           /\ DayNames[((d + 6) % 7) + 1] \in Range(days_of_week)
           /\ WeekIndex(d) = 1
           /\ d \notin Range(dates)

(***************************************************************************)
(* Appointment materialiser: generate_appointments_from_sections.          *)
(* A section and a customer line are dicts; a time of day is its number of *)
(* minutes since midnight.  An appointment is a record whose duration and  *)
(* end_time are None or a one-element tuple.                               *)
(***************************************************************************)
\* dict.get(key, default)
Get(d, key, default) == IF key \in DOMAIN d THEN d[key] ELSE default

\* "not section.get(key)" for the three required fields: the key is absent
\* or, for the service type, its value is the empty string (a date and a
\* time of day are always truthy).
IsMissing(section, key) ==
    \/ key \notin DOMAIN section
    \/ (key = "service_type" /\ section[key] = "")

SectionSkipped_service_type_unchecked(section) ==
    \/ IsMissing(section, "start_date")
    \/ IsMissing(section, "start_time")

SectionSkipped(section) ==
    \/ IsMissing(section, "service_type")
    \/ IsMissing(section, "start_date")
    \/ IsMissing(section, "start_time")

AppointmentDates_days_unchecked(section) ==
    IF Get(section, "is_recurring", FALSE)
    THEN generate_recurring_dates(
             section["start_date"],
             Get(section, "recurring_end_date", section["start_date"]),
             Get(section, "recurring_frequency", "week"),
             Get(section, "recurring_every", 1),
             Get(section, "recurring_days", <<>>))
    ELSE <<section["start_date"]>>

\* "Determine appointment dates"
AppointmentDates(section) ==
    IF Get(section, "is_recurring", FALSE)
    THEN IF Get(section, "recurring_days", <<>>) # <<>>
         THEN generate_recurring_dates(
                  section["start_date"],
                  Get(section, "recurring_end_date", section["start_date"]),
                  Get(section, "recurring_frequency", "week"),
                  Get(section, "recurring_every", 1),
                  Get(section, "recurring_days", <<>>))
         ELSE <<section["start_date"]>>
    ELSE <<section["start_date"]>>

DefaultEndTime == 1020

TimingFields_no_default(section) ==
    IF Get(section, "uses_end_date", "false") = "false"
    THEN [duration |-> IF "duration" \in DOMAIN section
                       THEN <<section["duration"]>> ELSE None,
          end_time |-> None]
    ELSE [duration |-> None,
          end_time |-> IF "end_time" \in DOMAIN section
                       THEN <<section["end_time"]>> ELSE None]

\* "Add duration or end_time based on uses_end_date"
TimingFields(section) ==
    IF Get(section, "uses_end_date", "false") = "false"
    THEN [duration |-> <<Get(section, "duration", 60)>>, end_time |-> None]
    ELSE [duration |-> None,
          end_time |-> <<Get(section, "end_time", DefaultEndTime)>>]

CustomerLabel_zero_based(customer_idx) == "Customer " \o ToString(customer_idx)

\* f"Customer {customer_idx + 1}", customer_idx counted from 0
CustomerLabel(customer_idx) == "Customer " \o ToString(customer_idx + 1)

\* "Create appointment entry"; section_idx and customer_idx count from 0.
MakeAppointment(section_idx, section, appointment_date, customer_idx, customer) ==
    [service_type |-> Get(section, "service_type", None),
     customer |-> CustomerLabel(customer_idx),
     number_of_pets |-> Get(customer, "number_of_pets", T_1pet),
     date |-> appointment_date,
     start_time |-> Get(section, "start_time", None),
     staff_pay_tier |-> Get(section, "staff_pay_tier", "Pay Tier 1"),
     price_tier |-> Get(customer, "price_tier", PriceTier1),
     is_recurring |-> Get(section, "is_recurring", FALSE),
     section_index |-> section_idx,
     duration |-> TimingFields(section).duration,
     end_time |-> TimingFields(section).end_time]

\* "for customer_idx, customer in enumerate(customers)"
RECURSIVE CustomerLoop(_, _, _, _, _, _)
CustomerLoop(acc, section_idx, section, appointment_date, customers, customer_idx) ==
    IF customer_idx >= Len(customers) THEN acc
    ELSE CustomerLoop(
             Append(acc, MakeAppointment(section_idx, section, appointment_date,
                                         customer_idx, customers[customer_idx + 1])),
             section_idx, section, appointment_date, customers, customer_idx + 1)

DateLoop_first_date_only(acc, section_idx, section, appointment_dates) ==
    IF appointment_dates = <<>> THEN acc
    ELSE CustomerLoop(acc, section_idx, section, Head(appointment_dates),
                      Get(section, "customers", <<>>), 0)

\* "for appointment_date in appointment_dates"
RECURSIVE DateLoop(_, _, _, _)
DateLoop(acc, section_idx, section, appointment_dates) ==
    IF appointment_dates = <<>> THEN acc
    ELSE DateLoop(
             CustomerLoop(acc, section_idx, section, Head(appointment_dates),
                          Get(section, "customers", <<>>), 0),
             section_idx, section, Tail(appointment_dates))

\* "for section_idx, section in enumerate(sections)"
RECURSIVE SectionLoop(_, _, _)
SectionLoop(acc, sections, section_idx) ==
    IF section_idx >= Len(sections) THEN acc
    ELSE LET section == sections[section_idx + 1]
         IN  IF SectionSkipped(section)
             THEN SectionLoop(acc, sections, section_idx + 1)
             ELSE SectionLoop(
                      DateLoop(acc, section_idx, section, AppointmentDates(section)),
                      sections, section_idx + 1)

generate_appointments_from_sections(sections) == SectionLoop(<<>>, sections, 0)

(***************************************************************************)
(* Inputs of the materialiser: sections as the form leaves them, and       *)
(* partial templates with keys still absent.                               *)
(***************************************************************************)
T_4pets == <<"4"," ","p","e","t","s">>

pets_options == <<T_1pet, T_2pets, T_3pets, T_4pets>>

price_tier_options == <<PriceTier1, PriceTier2, PriceTier3>>

EmptyDict == <<>>

\* n customer lines running through the options of the two select boxes.
FullCustomerLines(n) ==
    [k \in 1..n |->
        ("number_of_pets" :> pets_options[((k - 1) % 4) + 1])
        @@ ("price_tier" :> price_tier_options[((k - 1) % 3) + 1])]

\* n customer lines of which every second one is still an empty dict.
SparseCustomerLines(n) ==
    [k \in 1..n |->
        IF k % 2 = 1
        THEN ("number_of_pets" :> T_2pets) @@ ("price_tier" :> PriceTier2)
        ELSE EmptyDict]

CustomerChoices ==
    {EmptyDict}
    \cup {("customers" :> FullCustomerLines(n)) : n \in 0..MaxCustomers}
    \cup {("customers" :> SparseCustomerLines(n)) : n \in 1..MaxCustomers}

TimingChoices ==
    {EmptyDict,
     ("uses_end_date" :> "false") @@ ("duration" :> 30),
     ("uses_end_date" :> "false"),
     ("uses_end_date" :> "true") @@ ("end_date" :> 5) @@ ("end_time" :> 1080),
     ("uses_end_date" :> "true")}

\* Recurrence fields of a section that starts on day 3, a Wednesday.
RecurChoices ==
    {EmptyDict,
     ("is_recurring" :> FALSE),
     ("is_recurring" :> TRUE),
     ("is_recurring" :> TRUE) @@ ("recurring_end_date" :> 10)
         @@ ("recurring_frequency" :> "week") @@ ("recurring_every" :> 1)
         @@ ("recurring_days" :> <<>>),
     ("is_recurring" :> TRUE) @@ ("recurring_end_date" :> 10)
         @@ ("recurring_frequency" :> "week") @@ ("recurring_every" :> 1)
         @@ ("recurring_days" :> <<"Monday", "Wednesday">>),
     ("is_recurring" :> TRUE) @@ ("recurring_days" :> <<"Monday">>),
     ("is_recurring" :> TRUE) @@ ("recurring_days" :> <<"Wednesday", "Friday">>),
     ("is_recurring" :> TRUE) @@ ("recurring_end_date" :> 19)
         @@ ("recurring_frequency" :> "week") @@ ("recurring_every" :> 2)
         @@ ("recurring_days" :> <<"Wednesday", "Monday">>),
     ("is_recurring" :> TRUE) @@ ("recurring_end_date" :> 8)
         @@ ("recurring_frequency" :> "day") @@ ("recurring_every" :> 2)
         @@ ("recurring_days" :> <<"Friday">>)}

RequiredFields(service_type) ==
    ("service_type" :> service_type) @@ ("start_date" :> 3) @@ ("start_time" :> 540)

TimedSections ==
    {RequiredFields("Walk") @@ ("staff_pay_tier" :> "Pay Tier 2") @@ t @@ c :
        t \in TimingChoices, c \in CustomerChoices}

RecurringSections ==
    {RequiredFields("Board") @@ ("uses_end_date" :> "false") @@ ("duration" :> 30)
        @@ r @@ ("customers" :> lines) :
        r \in RecurChoices,
        lines \in {FullCustomerLines(MaxCustomers), SparseCustomerLines(1)}}

PartialSections ==
    {EmptyDict,
     ("service_type" :> "Walk") @@ ("uses_end_date" :> "false"),
     RequiredFields("") @@ ("customers" :> FullCustomerLines(1)),
     ("service_type" :> "Walk") @@ ("start_date" :> 3)
         @@ ("customers" :> FullCustomerLines(1)),
     ("service_type" :> "Walk") @@ ("start_time" :> 540)
         @@ ("customers" :> FullCustomerLines(1))}

Sections == TimedSections \cup RecurringSections \cup PartialSections

(***************************************************************************)
(* SpecGen: one call of generate_appointments_from_sections.               *)
(***************************************************************************)
GenInit ==
    /\ pc = "gen_ready"
    /\ appointment_sections \in UNION {[1..n -> Sections] : n \in 0..MaxSections}
    /\ appointments = <<>>
    /\ PriceIdle
    /\ RecurIdle
    /\ AuxIdle

GenerateAppointmentsFromSections ==
    /\ pc = "gen_ready"
    /\ appointments' = generate_appointments_from_sections(appointment_sections)
    /\ pc' = "gen_done"
    /\ UNCHANGED <<appointment_sections, priceVars, recurVars>>
    /\ UNCHANGED auxVars

GenNext == GenerateAppointmentsFromSections

SpecGen == GenInit /\ [][GenNext]_vars

(***************************************************************************)
(* Properties of generate_appointments_from_sections.                      *)
(***************************************************************************)
\* The section has a service type, a start date and a start time.
HasRequired(s) ==
    /\ "service_type" \in DOMAIN s /\ s["service_type"] # ""
    /\ "start_date" \in DOMAIN s
    /\ "start_time" \in DOMAIN s

\* The date list the specification gives a valid section.
ExpectedDates(s) ==
    IF /\ "is_recurring" \in DOMAIN s /\ s["is_recurring"]
       /\ "recurring_days" \in DOMAIN s /\ Len(s["recurring_days"]) > 0
    THEN generate_recurring_dates(
             s["start_date"],
             IF "recurring_end_date" \in DOMAIN s
                 THEN s["recurring_end_date"] ELSE s["start_date"],
             IF "recurring_frequency" \in DOMAIN s
                 THEN s["recurring_frequency"] ELSE "week",
             IF "recurring_every" \in DOMAIN s THEN s["recurring_every"] ELSE 1,
             s["recurring_days"])
    ELSE <<s["start_date"]>>

CustomerLines(s) == IF "customers" \in DOMAIN s THEN s["customers"] ELSE <<>>

\* The appointments of the output made from the section at position i.
AppointmentsOf(i) == SelectSeq(appointments, LAMBDA a : a.section_index = i - 1)

ValidPositions ==
    SelectSeq(Idx(Len(appointment_sections)),
              LAMBDA i : HasRequired(appointment_sections[i]))

\* C6: a valid section with D dates and C customer lines contributes
\* exactly D*C appointments, all with its service_type and staff_pay_tier.
C6_CrossProductCount ==
    pc = "gen_done" =>
        \A i \in 1..Len(appointment_sections) :
            LET s == appointment_sections[i]
            IN  HasRequired(s) =>
                    /\ Len(AppointmentsOf(i))
                           = Len(ExpectedDates(s)) * Len(CustomerLines(s))
                    /\ \A n \in 1..Len(AppointmentsOf(i)) :
                           /\ AppointmentsOf(i)[n].service_type = s["service_type"]
                           /\ AppointmentsOf(i)[n].staff_pay_tier
                                  = (IF "staff_pay_tier" \in DOMAIN s
                                     THEN s["staff_pay_tier"] ELSE "Pay Tier 1")

\* Three dates, two customer lines, six appointments; and sections that
\* contribute nothing because D = 0 or C = 0.
C6_Witness ==
    /\ pc = "gen_done"
    /\ \E i \in 1..Len(appointment_sections) :
           /\ HasRequired(appointment_sections[i])
           /\ Len(ExpectedDates(appointment_sections[i])) = 3
           /\ Len(CustomerLines(appointment_sections[i])) = 2
           /\ Len(AppointmentsOf(i)) = 6
    /\ \E i \in 1..Len(appointment_sections) :
           /\ HasRequired(appointment_sections[i])
           /\ Len(ExpectedDates(appointment_sections[i])) = 0
           /\ Len(CustomerLines(appointment_sections[i])) > 0
           /\ AppointmentsOf(i) = <<>>

\* The dates of the appointments of section i, one per date: those of
\* its first customer line.
ObservedDates(i) ==
    LET firsts == SelectSeq(AppointmentsOf(i), LAMBDA a : a.customer = "Customer 1")
    IN  [n \in 1..Len(firsts) |-> firsts[n].date]

\* C7: the dates of a valid section are those of generate_recurring_dates,
\* called with the defaults, when it is recurring with days selected, and
\* the single start_date otherwise.
C7_DateListOfSection ==
    pc = "gen_done" =>
        \A i \in 1..Len(appointment_sections) :
            LET s == appointment_sections[i]
            IN  (HasRequired(s) /\ Len(CustomerLines(s)) > 0)
                    => ObservedDates(i) = ExpectedDates(s)

\* A recurring section without days gives its start date; a recurring
\* section with days and no end date gives the generator's output for the
\* end date start_date; one with all fields gives several dates.
C7_Witness ==
    /\ pc = "gen_done"
    /\ \E i \in 1..Len(appointment_sections) :
           LET s == appointment_sections[i]
           IN  /\ HasRequired(s) /\ Len(CustomerLines(s)) > 0
               /\ "is_recurring" \in DOMAIN s /\ s["is_recurring"]
               /\ "recurring_days" \in DOMAIN s /\ s["recurring_days"] # <<>>
               /\ "recurring_end_date" \notin DOMAIN s
               /\ ObservedDates(i) = <<s["start_date"]>>
    /\ \E i \in 1..Len(appointment_sections) :
           LET s == appointment_sections[i]
           IN  /\ HasRequired(s) /\ Len(CustomerLines(s)) > 0
               /\ "is_recurring" \in DOMAIN s /\ s["is_recurring"]
               /\ "recurring_days" \in DOMAIN s /\ s["recurring_days"] = <<>>
               /\ "recurring_end_date" \in DOMAIN s
               /\ s["recurring_end_date"] > s["start_date"]
               /\ ObservedDates(i) = <<s["start_date"]>>

\* The output for the valid sections alone.
OnlyValidSections ==
    [k \in 1..Len(ValidPositions) |-> appointment_sections[ValidPositions[k]]]

\* C8: a section lacking a required field contributes nothing, and the
\* output is the output for the valid sections alone with each
\* section_index mapped back to the position in the full list.
C8_InvalidSectionsSkipped ==
    pc = "gen_done" =>
        LET reference == generate_appointments_from_sections(OnlyValidSections)
        IN  /\ \A i \in 1..Len(appointment_sections) :
                   ~HasRequired(appointment_sections[i]) => AppointmentsOf(i) = <<>>
            /\ Len(appointments) = Len(reference)
            /\ \A n \in 1..Len(appointments) :
                   n <= Len(reference) =>
                       appointments[n]
                           = [reference[n] EXCEPT
                                 !.section_index = ValidPositions[@ + 1] - 1]

\* A section with customer lines but no start time, or an empty service
\* type, precedes a valid section that produces appointments.
C8_Witness ==
    /\ pc = "gen_done"
    /\ Len(appointment_sections) >= 2
    /\ ~HasRequired(appointment_sections[1])
    /\ CustomerLines(appointment_sections[1]) # <<>>
    /\ HasRequired(appointment_sections[2])
    /\ appointments # <<>>
    /\ \A n \in 1..Len(appointments) : appointments[n].section_index = 1

\* Number of appointments the sections before position i contribute.
RECURSIVE OffsetOf(_)
OffsetOf(i) ==
    IF i <= 1 THEN 0
    ELSE OffsetOf(i - 1)
         + (IF HasRequired(appointment_sections[i - 1])
            THEN Len(ExpectedDates(appointment_sections[i - 1]))
                 * Len(CustomerLines(appointment_sections[i - 1]))
            ELSE 0)

\* C9: the output is ordered by section, then date, then customer line;
\* the appointment of the k-th line is labelled "Customer k" and carries
\* that line's number_of_pets and price_tier.
C9_OrderAndLabels ==
    pc = "gen_done" =>
        \A i \in 1..Len(appointment_sections) :
            LET s == appointment_sections[i]
                C == Len(CustomerLines(s))
            IN  HasRequired(s) =>
                    \A j \in 1..Len(ExpectedDates(s)) : \A k \in 1..C :
                        LET n == OffsetOf(i) + (j - 1) * C + k
                            line == CustomerLines(s)[k]
                        IN  /\ n <= Len(appointments)
                            /\ appointments[n].section_index = i - 1
                            /\ appointments[n].date = ExpectedDates(s)[j]
                            /\ appointments[n].customer = "Customer " \o ToString(k)
                            /\ "number_of_pets" \in DOMAIN line =>
                                   appointments[n].number_of_pets = line["number_of_pets"]
                            /\ "price_tier" \in DOMAIN line =>
                                   appointments[n].price_tier = line["price_tier"]

\* Two valid sections, the second with several dates and two different
\* customer lines, after a first one that produced appointments.
C9_Witness ==
    /\ pc = "gen_done"
    /\ Len(appointment_sections) = 2
    /\ HasRequired(appointment_sections[1])
    /\ HasRequired(appointment_sections[2])
    /\ OffsetOf(2) > 0
    /\ Len(ExpectedDates(appointment_sections[2])) >= 2
    /\ Len(CustomerLines(appointment_sections[2])) >= 2
    /\ Len(appointments) = OffsetOf(3)
    /\ appointments[Len(appointments)].customer = "Customer 2"
    /\ appointments[Len(appointments)].number_of_pets = T_2pets
    /\ appointments[Len(appointments) - 1].customer = "Customer 1"
    /\ appointments[Len(appointments) - 1].number_of_pets = T_1pet

\* C10: an appointment has a duration and no end_time when its section's
\* uses_end_date is 'false', an end_time and no duration otherwise, also
\* when the section has no duration or end_time of its own.
C10_DurationXorEndTime ==
    pc = "gen_done" =>
        \A n \in 1..Len(appointments) :
            LET a == appointments[n]
                s == appointment_sections[a.section_index + 1]
                uses_end_date == IF "uses_end_date" \in DOMAIN s
                                 THEN s["uses_end_date"] ELSE "false"
            IN  IF uses_end_date = "false"
                THEN a.duration # None /\ a.end_time = None
                ELSE a.duration = None /\ a.end_time # None

\* A duration-based section without duration and an end-time-based section
\* without end_time both produce appointments.
C10_Witness ==
    /\ pc = "gen_done"
    /\ \E n \in 1..Len(appointments) :
           LET s == appointment_sections[appointments[n].section_index + 1]
           IN  /\ "uses_end_date" \in DOMAIN s /\ s["uses_end_date"] = "false"
               /\ "duration" \notin DOMAIN s
               /\ appointments[n].duration = <<60>>
               /\ appointments[n].end_time = None
    /\ \E n \in 1..Len(appointments) :
           LET s == appointment_sections[appointments[n].section_index + 1]
           IN  /\ "uses_end_date" \in DOMAIN s /\ s["uses_end_date"] = "true"
               /\ "end_time" \notin DOMAIN s
               /\ appointments[n].duration = None
               /\ appointments[n].end_time = <<DefaultEndTime>>

(***************************************************************************)
(* Further properties of generate_recurring_dates (SpecRecur).             *)
(***************************************************************************)
\* C11: for the four frequencies of the form the output is strictly
\* ascending and lies within [start_date, end_date].
C11_AscendingWithinRange ==
    (pc = "recur_done" /\ frequency \in {"day", "week", "month", "year"}) =>
        /\ \A i \in 1..Len(dates) : start_date <= dates[i] /\ dates[i] <= end_date
        /\ \A i \in 1..(Len(dates) - 1) : dates[i] < dates[i + 1]

\* A weekly call whose days_of_week lists a later weekday before an
\* earlier one and that emits both in one week.
C11_Witness ==
    /\ pc = "recur_done"
    /\ frequency = "week"
    /\ \E i \in 1..Len(days_of_week) : \E j \in 1..Len(days_of_week) :
           /\ i < j
           /\ days_mapping[days_of_week[i]] > days_mapping[days_of_week[j]]
           /\ \E m \in 1..(Len(dates) - 1) :
                  /\ MondayOf(dates[m]) = MondayOf(dates[m + 1])
                  /\ DayNames[((dates[m] + 6) % 7) + 1] = days_of_week[j]
                  /\ DayNames[((dates[m + 1] + 6) % 7) + 1] = days_of_week[i]

\* The dates start_date + k*step, k >= 0, up to end_date.
Stepped(step) == {d \in start_date..end_date : (d - start_date) % step = 0}

OnSelectedDay(d) == DayNames[((d + 6) % 7) + 1] \in Range(days_of_week)

\* C12 as stated: with frequency day the stepped dates are filtered by
\* days_of_week whenever days_of_week is non-empty.
C12_DailyFilteredByDays ==
    (pc = "recur_done" /\ frequency = "day") =>
        Range(dates) = IF days_of_week = <<>>
                       THEN Stepped(every)
                       ELSE {d \in Stepped(every) : OnSelectedDay(d)}

\* C12 amended: with frequency day the output is exactly the stepped
\* dates, whether days_of_week is empty or not.
C12_DailyIgnoresDays ==
    (pc = "recur_done" /\ frequency = "day") =>
        /\ Range(dates) = Stepped(every)
        /\ Len(dates) = Cardinality(Stepped(every))

\* A daily call with days selected that emits a date on another weekday.
C12_Witness ==
    /\ pc = "recur_done"
    /\ frequency = "day"
    /\ every = 2
    /\ days_of_week # <<>>
    /\ Len(dates) >= 3
    /\ \E i \in 1..Len(dates) : ~OnSelectedDay(dates[i])

StepDays == IF frequency = "month" THEN 30 * every ELSE 365 * every

\* C13: with frequency month (year) the candidates are the dates
\* start_date + k*30*every (k*365*every) up to end_date; all of them are
\* returned when days_of_week is empty, those on a selected weekday
\* otherwise.
C13_MonthYearFixedSteps ==
    (pc = "recur_done" /\ frequency \in {"month", "year"}) =>
        /\ Range(dates) = IF days_of_week = <<>>
                          THEN Stepped(StepDays)
                          ELSE {d \in Stepped(StepDays) : OnSelectedDay(d)}
        /\ Len(dates) = Cardinality(Range(dates))

\* A monthly call over two steps of 30 days with days selected: a
\* candidate is kept and another one is dropped.
C13_Witness ==
    /\ pc = "recur_done"
    /\ frequency = "month"
    /\ every = 1
    /\ end_date = start_date + 60
    /\ days_of_week # <<>>
    /\ start_date + 30 \in Range(dates)
    /\ \E d \in Stepped(30) : d \notin Range(dates)

\* C14: a start date after the end date gives the empty list.
C14_EmptyWhenStartAfterEnd ==
    (pc = "recur_done" /\ start_date > end_date) => dates = <<>>

\* A weekly call with start_date > end_date whose first week has a
\* selected weekday not after end_date and another not before start_date.
C14_Witness ==
    /\ pc = "recur_done"
    /\ frequency = "week"
    /\ start_date > end_date
    /\ \E d \in MondayOf(start_date)..end_date : OnSelectedDay(d)
    /\ \E d \in start_date..(MondayOf(start_date) + 6) : OnSelectedDay(d)
    /\ dates = <<>>

(***************************************************************************)
(* SpecRecurLoop: generate_recurring_dates iteration by iteration.  One    *)
(* step is one pass through a loop body together with the loop test that   *)
(* follows it; the interpreter runs the function to its end, which is the  *)
(* weak fairness of the steps.                                             *)
(***************************************************************************)
LoopDayLists == {<<>>, <<"Wednesday", "Monday">>}

LoopInit ==
    /\ pc = "loop_start"
    /\ start_date \in 1..MaxStart
    /\ frequency \in Frequencies
    /\ end_date \in EndDates(start_date, frequency)
    /\ every \in 1..MaxEvery
    /\ days_of_week \in LoopDayLists
    /\ dates = <<>>
    /\ LoopIdle
    /\ PriceIdle
    /\ GenIdle
    /\ CatalogIdle
    /\ BatchIdle
    /\ DurIdle
    /\ RestIdle

loopOther == <<start_date, end_date, frequency, every, days_of_week, priceVars, genVars,
               catalogVars, batchVars, durVars, restVars>>

\* Lines 746-763 and 786: the locals before the loop.
EnterLoop ==
    /\ pc = "loop_start"
    /\ IF frequency = "week"
       THEN /\ cur_week_start' = start_date - Weekday(start_date)
            /\ cur_week_count' = 0
            /\ pc' = "week_body"
            /\ UNCHANGED cur_date
       ELSE /\ cur_date' = start_date
            /\ pc' = "step_test"
            /\ UNCHANGED <<cur_week_start, cur_week_count>>
    /\ UNCHANGED <<dates, loopOther>>

WeekExit_at_end_date(next_week_start) == next_week_start >= end_date

\* "Stop if the entire next week is past the end date"
WeekExit(next_week_start) == next_week_start > end_date

\* One pass through the body of "while True".
WeekBody ==
    /\ pc = "week_body"
    /\ dates' = IF cur_week_count % every = 0
                THEN dates \o WeekDates(cur_week_start, start_date, end_date,
                                        days_of_week)
                ELSE dates
    /\ cur_week_start' = cur_week_start + 7
    /\ cur_week_count' = cur_week_count + 1
    /\ pc' = IF WeekExit(cur_week_start + 7) THEN "sort" ELSE "week_body"
    /\ UNCHANGED <<cur_date, loopOther>>

\* The test of "while cur_date <= end_date" and, when it holds, one
\* pass through the body.
StepBody ==
    /\ pc = "step_test"
    /\ IF cur_date <= end_date
       THEN /\ dates' = IF frequency = "day" \/ days_of_week = <<>>
                        THEN Append(dates, cur_date)
                        ELSE IF WeekdayName(cur_date) \in Range(days_of_week)
                             THEN Append(dates, cur_date)
                             ELSE dates
            /\ IF frequency = "day"
               THEN cur_date' = cur_date + every /\ pc' = "step_test"
               ELSE IF frequency = "month"
               THEN cur_date' = cur_date + 30 * every /\ pc' = "step_test"
               ELSE IF frequency = "year"
               THEN cur_date' = cur_date + 365 * every /\ pc' = "step_test"
               ELSE cur_date' = cur_date /\ pc' = "sort"
       ELSE /\ pc' = "sort"
            /\ UNCHANGED <<dates, cur_date>>
    /\ UNCHANGED <<cur_week_start, cur_week_count, loopOther>>

\* dates.sort(); return dates
SortAndReturn ==
    /\ pc = "sort"
    /\ dates' = SortDates(dates)
    /\ pc' = "loop_done"
    /\ UNCHANGED <<loopVars, loopOther>>

LoopNext == EnterLoop \/ WeekBody \/ StepBody \/ SortAndReturn

SpecRecurLoop == LoopInit /\ [][LoopNext]_vars /\ WF_vars(LoopNext)

\* The two models of the function agree on the result.
LoopAgreesWithFunction ==
    pc = "loop_done" =>
        dates = generate_recurring_dates(start_date, end_date, frequency, every,
                                         days_of_week)

LoopStepOf == IF frequency = "day" THEN every
              ELSE IF frequency = "month" THEN 30 * every
              ELSE 365 * every

\* Where each loop stands when it has stopped.
StoppedWhereClaimed ==
    pc = "sort" =>
        IF frequency = "week"
        THEN /\ cur_week_start > end_date
             /\ cur_week_count = 1 \/ cur_week_start - 7 <= end_date
        ELSE IF frequency \in {"day", "month", "year"}
        THEN /\ cur_date > end_date
             /\ cur_date = start_date \/ cur_date - LoopStepOf <= end_date
        ELSE /\ cur_date = start_date
             /\ Len(dates) <= 1

\* C15 as stated: the weekly loop stops at the first week whose Monday is
\* after end_date, so the week before the one it stops at starts on or
\* before end_date.
C15_WeeklyStopsAtFirstWeekAfterEnd ==
    (pc = "sort" /\ frequency = "week") =>
        /\ cur_week_start > end_date
        /\ cur_week_start - 7 <= end_date

\* C15, amended: every call with every >= 1 terminates; the weekly loop
\* runs its body for the week of start_date and stops at the first later
\* week that starts after end_date, the day/month/year loop stops at the
\* first current_date after end_date, and an unrecognised frequency stops
\* after at most one pass.
C15_LoopsTerminate == <>(pc = "loop_done") /\ [](StoppedWhereClaimed)

\* A weekly call that went through several weeks, a skipped one included.
C15_Witness ==
    /\ pc = "loop_done"
    /\ frequency = "week"
    /\ every = 2
    /\ cur_week_count >= 3
    /\ Len(dates) >= 2

(***************************************************************************)
(* Catalog tables, the join of the two, and the invoice aggregation.       *)
(* A services row is a record [is_active, service_type_id,                 *)
(* charge_block_duration, number_of_pets] with recommended_customer_rate   *)
(* when the file has that column; a service-types row is                   *)
(* [id, name, is_active].  is_active is the text of the cell.              *)
(***************************************************************************)
MaxAppointments == 3

\* The characters of the texts compared here, in code point order.
CodeOrder == <<" ", "-">> \o Digits \o UpperCase \o LowerCase

Ord(c) == CHOOSE i \in 1..Len(CodeOrder) : CodeOrder[i] = c

\* s < t on Python strings.
RECURSIVE StrLess(_, _)
StrLess(s, t) ==
    IF t = <<>> THEN FALSE
    ELSE IF s = <<>> THEN TRUE
    ELSE IF Head(s) = Head(t) THEN StrLess(Tail(s), Tail(t))
    ELSE Ord(Head(s)) < Ord(Head(t))

\* str(n) of an int n >= 0.
RECURSIVE IntToChars(_)
IntToChars(n) ==
    IF n < 10 THEN <<Digits[n + 1]>>
    ELSE Append(IntToChars(n \div 10), Digits[(n % 10) + 1])

\* " ".join(parts)
RECURSIVE Join(_)
Join(parts) ==
    IF parts = <<>> THEN <<>>
    ELSE IF Len(parts) = 1 THEN parts[1]
    ELSE parts[1] \o <<" ">> \o Join(Tail(parts))

Plural_always(n) == <<"s">>

\* 's' if n != 1 else ''
Plural(n) == IF n # 1 THEN <<"s">> ELSE <<>>

format_duration_minutes(minutes) ==
    IF minutes = 0 THEN <<"0"," ","m","i","n","u","t","e","s">>
    ELSE LET days == minutes \div 1440
             hours == (minutes % 1440) \div 60
             mins == minutes % 60
             parts ==
                 (IF days > 0
                  THEN <<IntToChars(days) \o <<" ","d","a","y">> \o Plural(days)>>
                  ELSE <<>>)
                 \o (IF hours > 0
                     THEN <<IntToChars(hours) \o <<" ","h","o","u","r">> \o Plural(hours)>>
                     ELSE <<>>)
                 \o (IF mins > 0
                     THEN <<IntToChars(mins) \o <<" ","m","i","n","u","t","e">>
                                \o Plural(mins)>>
                     ELSE <<>>)
         IN  Join(parts)

\* The characters of a service type name.
TextOf(name) ==
    IF name = "Walk" THEN <<"W","a","l","k">>
    ELSE IF name = "Board" THEN <<"B","o","a","r","d">>
    ELSE <<"U","n","k","n","o","w","n">>

True == <<"t","r","u","e">>

\* df[df['is_active'].str.lower() == 'true']
ActiveRows(df) == SelectSeq(df, LAMBDA r : Lower(r.is_active) = True)

get_service_types(df) == ActiveRows(df)

\* The name of a left-join row whose service_type_id has no service type.
NaN == "nan"

\* The rows the left join makes of one services row.
MergeRow(service, types) ==
    LET m == SelectSeq(types,
                       LAMBDA t : AsTypeStr(t.id, "int64")
                                     = AsTypeStr(service.service_type_id, "int64"))
    IN  IF m = <<>> THEN <<[name |-> NaN] @@ service>>
        ELSE [j \in 1..Len(m) |-> [name |-> m[j].name] @@ service]

\* services_df.merge(service_types_df[['id', 'name']], how='left')
RECURSIVE Merge(_, _)
Merge(services, types) ==
    IF services = <<>> THEN <<>>
    ELSE MergeRow(Head(services), types) \o Merge(Tail(services), types)

PriceOrZero_fee(p) == IF p = None THEN 100 ELSE p[1]

\* "if price is None: price = 0.0"
PriceOrZero(p) == IF p = None THEN 0 ELSE p[1]

\* f"{service_type_name} - {duration_display}"
InvoiceKey(a) ==
    TextOf(a.service_type) \o <<" ","-"," ">> \o format_duration_minutes(a.duration[1])

\* invoice_dict after one more appointment: a dict keeps its keys in the
\* order of their first insertion.
Aggregate(invoice_dict, key, p) ==
    IF \E i \in 1..Len(invoice_dict) : invoice_dict[i].key = key
    THEN [i \in 1..Len(invoice_dict) |->
            IF invoice_dict[i].key = key
            THEN [key |-> key, Count |-> invoice_dict[i].Count + 1,
                  Total |-> invoice_dict[i].Total + p]
            ELSE invoice_dict[i]]
    ELSE Append(invoice_dict, [key |-> key, Count |-> 1, Total |-> p])

RECURSIVE InvoiceLoop(_, _, _, _)
InvoiceLoop(apts, ms, dtype, invoice_dict) ==
    IF apts = <<>> THEN invoice_dict
    ELSE LET a == Head(apts)
         IN  IF a.duration = None
             THEN InvoiceLoop(Tail(apts), ms, dtype, invoice_dict)
             ELSE InvoiceLoop(Tail(apts), ms, dtype,
                      Aggregate(invoice_dict, InvoiceKey(a),
                                PriceOrZero(calculate_appointment_price(a, ms, dtype))))

SortLines_unsorted(lines) == lines

\* invoice_data.sort(key=lambda x: x['Service Type - Duration'])
SortLines(lines) == SortSeq(lines, LAMBDA x, y : StrLess(x.key, y.key))

calculate_invoice_data(apts, services, types, dtype) ==
    IF apts = <<>> THEN <<>>
    ELSE LET service_types == get_service_types(types)
         IN  IF services = <<>> \/ service_types = <<>> THEN <<>>
             ELSE SortLines(InvoiceLoop(apts, Merge(ActiveRows(services), service_types),
                                        dtype, <<>>))

\* Lines 1117-1136: merged_services of the appointments list.
PreviewCatalog(services, types) ==
    LET service_types == get_service_types(types)
    IN  IF services # <<>> /\ service_types # <<>>
        THEN Merge(ActiveRows(services), service_types)
        ELSE <<>>

\* Lines 1156-1158, for every appointment of the list.
PreviewPrices(apts, services, types, dtype) ==
    LET ms == PreviewCatalog(services, types)
    IN  [i \in 1..Len(apts) |->
            IF ms # <<>> THEN calculate_appointment_price(apts[i], ms, dtype)
            ELSE None]

(***************************************************************************)
(* Inputs of the appointments list.                                        *)
(***************************************************************************)
T_True == <<"T","r","u","e">>
T_False == <<"F","a","l","s","e">>
T_NA == [numeric |-> FALSE, cents |-> 0]

Rate(c) == [numeric |-> TRUE, cents |-> c]

ServiceRow(active, type_id, cbd, pets, rate) ==
    [is_active |-> active, service_type_id |-> type_id,
     charge_block_duration |-> cbd, number_of_pets |-> pets,
     recommended_customer_rate |-> rate]

\* A row of a services.csv that has no recommended_customer_rate column.
ServiceRowNoRate(active, type_id, cbd, pets) ==
    [is_active |-> active, service_type_id |-> type_id,
     charge_block_duration |-> cbd, number_of_pets |-> pets]

ServiceTables ==
    { <<>>,
      <<ServiceRow(T_True, 1, 60, T_1pet, Rate(1000)),
        ServiceRow(True, 1, 30, T_1pet, Rate(2000)),
        ServiceRow(T_True, 2, 60, T_1pet, Rate(3000))>>,
      <<ServiceRow(T_True, 1, 60, T_1pet, T_NA),
        ServiceRow(T_True, 1, 30, T_1pet, Rate(2000))>>,
      <<ServiceRow(T_False, 1, 60, T_1pet, Rate(1000)),
        ServiceRow(T_True, 1, 60, T_2pets, Rate(2000)),
        ServiceRow(T_True, 3, 60, T_1pet, Rate(3000))>>,
      <<ServiceRow(T_False, 1, 60, T_1pet, Rate(1000))>>,
      <<ServiceRowNoRate(T_True, 1, 60, T_1pet),
        ServiceRowNoRate(T_True, 1, 30, T_1pet)>> }

TypeWalk == [id |-> 1, name |-> "Walk", is_active |-> T_True]
TypeBoard == [id |-> 2, name |-> "Board", is_active |-> True]
TypeBoardOff == [id |-> 2, name |-> "Board", is_active |-> T_False]

ServiceTypeTables ==
    { <<>>, <<TypeWalk, TypeBoard>>, <<TypeBoardOff>>, <<TypeBoardOff, TypeWalk>> }

ListedAppointment(type, duration, tier) ==
    [service_type |-> type, duration |-> duration, number_of_pets |-> T_1pet,
     price_tier |-> tier]

ListedAppointments ==
    { ListedAppointment("Walk", <<60>>, PriceTier1),
      ListedAppointment("Walk", <<30>>, PriceTier2),
      ListedAppointment("Walk", <<90>>, PriceTier1),
      ListedAppointment("Board", <<60>>, PriceTier3),
      ListedAppointment("Walk", None, PriceTier1) }

(***************************************************************************)
(* SpecList: the appointments list tab over one list of appointments and   *)
(* one pair of catalog files: the invoice and the price of each row.       *)
(***************************************************************************)
ListInit ==
    /\ pc = "list_ready"
    /\ filtered_appointments \in
           UNION {[1..n -> ListedAppointments] : n \in 0..MaxAppointments}
    /\ services_df \in ServiceTables
    /\ service_types_df \in ServiceTypeTables
    /\ cbd_dtype = "int64"
    /\ invoice_data = <<>>
    /\ preview_prices = <<>>
    /\ apt = IdleApt
    /\ merged_services = <<>>
    /\ price = None
    /\ RecurIdle
    /\ GenIdle
    /\ LoopIdle
    /\ DurIdle
    /\ RestIdle

listOther == <<pc, apt, merged_services, cbd_dtype, price, recurVars, genVars,
               loopVars, catalogVars, durVars, restVars, filtered_appointments>>

CalculateInvoiceData ==
    /\ pc = "list_ready"
    /\ invoice_data' = calculate_invoice_data(filtered_appointments, services_df,
                                              service_types_df, cbd_dtype)
    /\ pc' = "invoice_done"
    /\ UNCHANGED <<apt, merged_services, cbd_dtype, price, recurVars, genVars,
                   loopVars, catalogVars, durVars, restVars, filtered_appointments,
                   preview_prices>>

RenderAppointmentPrices ==
    /\ pc = "list_ready"
    /\ preview_prices' = PreviewPrices(filtered_appointments, services_df,
                                       service_types_df, cbd_dtype)
    /\ pc' = "prices_done"
    /\ UNCHANGED <<apt, merged_services, cbd_dtype, price, recurVars, genVars,
                   loopVars, catalogVars, durVars, restVars, filtered_appointments,
                   invoice_data>>

ListNext == CalculateInvoiceData \/ RenderAppointmentPrices

SpecList == ListInit /\ [][ListNext]_vars

(***************************************************************************)
(* Properties of calculate_invoice_data.                                   *)
(***************************************************************************)
\* Positions of the appointments that have a duration.
WithDuration(apts) == {i \in 1..Len(apts) : apts[i].duration # None}

KeysOf(apts) == {InvoiceKey(apts[i]) : i \in WithDuration(apts)}

RECURSIVE SumOver(_, _)
SumOver(S, f) ==
    IF S = {} THEN 0
    ELSE LET i == CHOOSE j \in S : TRUE IN f[i] + SumOver(S \ {i}, f)

\* The catalog the invoice prices against.
InvoiceCatalog == Merge(ActiveRows(services_df), get_service_types(service_types_df))

ResolvedCents(apts) ==
    [i \in 1..Len(apts) |->
        LET p == calculate_appointment_price(apts[i], InvoiceCatalog, cbd_dtype)
        IN  IF p = None THEN 0 ELSE p[1]]

\* One line per key of the appointments with duration, ascending by key,
\* each with the count and the summed price of the appointments of its key.
LinesOfAppointments(lines, apts) ==
    /\ {lines[i].key : i \in 1..Len(lines)} = KeysOf(apts)
    /\ \A i \in 1..(Len(lines) - 1) : StrLess(lines[i].key, lines[i + 1].key)
    /\ \A i \in 1..Len(lines) :
         LET of_key == {j \in WithDuration(apts) : InvoiceKey(apts[j]) = lines[i].key}
         IN  /\ lines[i].Count = Cardinality(of_key)
             /\ lines[i].Total = SumOver(of_key, ResolvedCents(apts))

\* C16 as stated: for every catalog the result has one line per key.
C16_LinesPerKey ==
    pc = "invoice_done" => LinesOfAppointments(invoice_data, filtered_appointments)

\* C16, amended: when services.csv has rows and there is an active service
\* type, the result is, ascending by key, one line per distinct key of the
\* appointments with a duration, with their count and the sum of their
\* prices, a price that did not resolve counting as 0; otherwise the result
\* is empty.
C16_LinesPerKeyWithCatalog ==
    pc = "invoice_done" =>
        IF services_df # <<>> /\ get_service_types(service_types_df) # <<>>
        THEN LinesOfAppointments(invoice_data, filtered_appointments)
        ELSE invoice_data = <<>>

\* Two keys out of order in the list, one priced and one with no matching
\* row, and an appointment without duration after them.
C16_Witness ==
    /\ pc = "invoice_done"
    /\ Len(filtered_appointments) = 3
    /\ filtered_appointments[1].duration # None
    /\ filtered_appointments[2].duration # None
    /\ filtered_appointments[3].duration = None
    /\ StrLess(InvoiceKey(filtered_appointments[2]), InvoiceKey(filtered_appointments[1]))
    /\ Len(invoice_data) = 2
    /\ invoice_data[1].Total = 0
    /\ invoice_data[2].Total > 0

Permuted(apts, p) == [i \in 1..Len(apts) |-> apts[p[i]]]

Doubled(lines) ==
    [i \in 1..Len(lines) |->
        [key |-> lines[i].key, Count |-> 2 * lines[i].Count,
         Total |-> 2 * lines[i].Total]]

\* C17: for a fixed catalog every permutation of the appointment list
\* gives the same lines in the same order, and the list followed by itself
\* gives the same keys with every count and total doubled (totals in
\* hundredths).
C17_OrderIndependentAndDoubling ==
    pc = "invoice_done" =>
        /\ \A p \in Permutations(1..Len(filtered_appointments)) :
             calculate_invoice_data(Permuted(filtered_appointments, p), services_df,
                                    service_types_df, cbd_dtype) = invoice_data
        /\ calculate_invoice_data(filtered_appointments \o filtered_appointments,
                                  services_df, service_types_df, cbd_dtype)
               = Doubled(invoice_data)

\* Three priced appointments of three keys, listed in descending key order.
C17_Witness ==
    /\ pc = "invoice_done"
    /\ Len(filtered_appointments) = 3
    /\ Len(invoice_data) = 3
    /\ \A i \in 1..2 :
         /\ filtered_appointments[i].duration # None
         /\ filtered_appointments[i + 1].duration # None
         /\ StrLess(InvoiceKey(filtered_appointments[i + 1]),
                    InvoiceKey(filtered_appointments[i]))
    /\ \E i \in 1..3 : invoice_data[i].Total > 0

(***************************************************************************)
(* Tier adjustment and rate fields that are not numbers.                   *)
(***************************************************************************)
TierLabel(t) == <<"P","r","i","c","e"," ","T","i","e","r"," ">> \o IntToChars(t)

\* C18: when the selected row has a numeric rate and the label is
\* "Price Tier t" with t in 1..3, the price is the rate plus t hundredths.
C18_TierAdjustment ==
    pc = "price_done" =>
        \A t \in 1..3 :
            LET k == SelectedRow(apt, merged_services, cbd_dtype)
            IN  (/\ apt.price_tier = TierLabel(t)
                 /\ k # 0
                 /\ merged_services[k].recommended_customer_rate.numeric)
                => price = <<merged_services[k].recommended_customer_rate.cents + t>>

\* A tier 2 appointment priced from the second row of the catalog.
C18_Witness ==
    /\ pc = "price_done"
    /\ apt.price_tier = PriceTier2
    /\ SelectedRow(apt, merged_services, cbd_dtype) = 2
    /\ price = <<2002>>

\* The row selected for appointment i of the list; 0 when none is.
ListedRow(i) ==
    SelectedRow(filtered_appointments[i],
                PreviewCatalog(services_df, service_types_df), cbd_dtype)

RateUnusable(row) ==
    \/ "recommended_customer_rate" \notin DOMAIN row
    \/ ~row.recommended_customer_rate.numeric

\* C19: an appointment whose selected row has a rate that is not a number,
\* or no rate, is priced 0.0, and every appointment of the list has the
\* price it has when listed alone.
C19_UnusableRatePricedZero ==
    pc = "prices_done" =>
        \A i \in 1..Len(filtered_appointments) :
            /\ (/\ ListedRow(i) # 0
                /\ RateUnusable(PreviewCatalog(services_df, service_types_df)[ListedRow(i)]))
               => preview_prices[i] = <<0>>
            /\ preview_prices[i]
                 = PreviewPrices(<<filtered_appointments[i]>>, services_df,
                                 service_types_df, cbd_dtype)[1]

(***************************************************************************)
(* get_duration_options.  A cell of services.csv is a number when pandas   *)
(* read its column as numbers, and the text of the file when some cell of  *)
(* the column is not a number (keep_default_na=False keeps an empty cell   *)
(* as text).                                                               *)
(***************************************************************************)
Num(n) == [text |-> FALSE, val |-> n]
Txt(chars) == [text |-> TRUE, chars |-> chars]

\* Series.astype(str) of an integer or text cell, and str() of an id.
CellStr(cell) == IF cell.text THEN cell.chars ELSE IntToChars(cell.val)

DotAt(s) == IF \E i \in 1..Len(s) : s[i] = "."
            THEN CHOOSE i \in 1..Len(s) : s[i] = "." /\ \A j \in 1..(i - 1) : s[j] # "."
            ELSE Len(s) + 1

\* float(text) succeeds on digits with an optional fraction, blanks around
\* them allowed.
FloatParses(chars) ==
    LET s == Strip(chars)
        whole == SubSeq(s, 1, DotAt(s) - 1)
        frac == SubSeq(s, DotAt(s) + 1, Len(s))
    IN  /\ whole \o frac # <<>>
        /\ \A i \in 1..Len(whole) : IsDigit(whole[i])
        /\ \A i \in 1..Len(frac) : IsDigit(frac[i])

\* int(float(cell)): the value truncated, None when float() raises.
IntFloat(cell) ==
    IF ~cell.text THEN <<cell.val>>
    ELSE IF FloatParses(cell.chars)
    THEN LET s == Strip(cell.chars)
         IN  <<DigitsVal(SubSeq(s, 1, DotAt(s) - 1), 0)>>
    ELSE None

\* max_duration_val == 0 or max_duration_val == '0'
IsUnlimited(max_duration_val) ==
    IF max_duration_val.text THEN max_duration_val.chars = <<"0">>
    ELSE max_duration_val.val = 0

UnlimitedCap == 1440

\* "while current <= max_duration: duration_options.add(current);
\*  current += granularity"
RECURSIVE DurationWhile(_, _, _, _)
DurationWhile(current, max_duration, granularity, options) ==
    IF current <= max_duration
    THEN DurationWhile(current + granularity, max_duration, granularity,
                       options \cup {current})
    ELSE options

RowOptions_min_kept(service, options) ==
    LET min_duration == IntFloat(service.min_duration)
        granularity == IntFloat(service.duration_granularity)
    IN  IF min_duration = None THEN options
        ELSE IF granularity = None THEN options \cup {min_duration[1]}
        ELSE IF IsUnlimited(service.max_duration)
        THEN DurationWhile(min_duration[1], UnlimitedCap, granularity[1], options)
                 \cup {min_duration[1]}
        ELSE IF IntFloat(service.max_duration) = None
        THEN options \cup {min_duration[1]}
        ELSE DurationWhile(min_duration[1], IntFloat(service.max_duration)[1],
                           granularity[1], options) \cup {min_duration[1]}

\* The body of the loop over the matching rows: the options after one row.
RowOptions(service, options) ==
    LET min_duration == IntFloat(service.min_duration)
        granularity == IntFloat(service.duration_granularity)
    IN  IF min_duration = None \/ granularity = None THEN options
        ELSE IF IsUnlimited(service.max_duration)
        THEN DurationWhile(min_duration[1], UnlimitedCap, granularity[1], options)
                 \cup {min_duration[1]}
        ELSE IF IntFloat(service.max_duration) = None THEN options
        ELSE DurationWhile(min_duration[1], IntFloat(service.max_duration)[1],
                           granularity[1], options) \cup {min_duration[1]}

RECURSIVE RowsLoop(_, _)
RowsLoop(rows, options) ==
    IF rows = <<>> THEN options
    ELSE RowsLoop(Tail(rows), RowOptions(Head(rows), options))

\* sorted(list(duration_options))
RECURSIVE Sorted(_)
Sorted(S) ==
    IF S = {} THEN <<>>
    ELSE LET m == CHOOSE x \in S : \A y \in S : x <= y
         IN  <<m>> \o Sorted(S \ {m})

get_duration_options(type_id, services) ==
    IF type_id = None THEN <<>>
    ELSE IF services = <<>> THEN <<>>
    ELSE LET matching_services ==
                 SelectSeq(ActiveRows(services),
                           LAMBDA r : CellStr(r.service_type_id) = type_id)
         IN  IF matching_services = <<>> THEN <<>>
             ELSE Sorted(RowsLoop(matching_services, {}))

(***************************************************************************)
(* Inputs of get_duration_options: duration_granularity >= 1 and           *)
(* min_duration <= max_duration unless max_duration is 0.                  *)
(***************************************************************************)
DurationRow(active, type_id, min_duration, max_duration, granularity) ==
    [is_active |-> active, service_type_id |-> type_id, min_duration |-> min_duration,
     max_duration |-> max_duration, duration_granularity |-> granularity]

\* Rows of a file whose columns are all numbers.
NumberRows ==
    { DurationRow(T_True, Num(1), Num(30), Num(90), Num(30)),
      DurationRow(T_True, Num(1), Num(15), Num(60), Num(30)),
      DurationRow(T_True, Num(1), Num(1380), Num(0), Num(30)),
      DurationRow(True, Num(1), Num(1400), Num(0), Num(60)),
      DurationRow(T_False, Num(1), Num(20), Num(40), Num(10)),
      DurationRow(T_True, Num(2), Num(60), Num(60), Num(60)) }

T_30 == <<"3","0">>
T_60 == <<"6","0">>
T_1380 == <<"1","3","8","0">>
T_0 == <<"0">>
T_0_0 == <<"0",".","0">>
T_30_0 == <<"3","0",".","0">>
T_45_5 == <<"4","5",".","5">>
T_15 == <<"1","5">>
T_NotANumber == <<"N","-","A">>

\* Rows of a file whose columns were read as text.
TextRows ==
    { DurationRow(T_True, Txt(<<"1">>), Txt(T_30), Txt(T_60), Txt(T_30)),
      DurationRow(T_True, Txt(<<"1">>), Txt(T_1380), Txt(T_0), Txt(T_30)),
      DurationRow(T_True, Txt(<<"1">>), Txt(T_1380), Txt(T_0_0), Txt(T_30)),
      DurationRow(T_True, Txt(<<"1">>), Txt(T_30_0), Txt(T_45_5), Txt(T_15)),
      DurationRow(T_True, Txt(<<"1">>), Txt(T_30), Txt(T_60), Txt(T_NotANumber)),
      DurationRow(T_True, Txt(<<"1">>), Txt(T_NotANumber), Txt(T_60), Txt(T_15)),
      DurationRow(T_True, Txt(<<"1">>), Txt(T_15), Txt(<<>>), Txt(T_15)),
      DurationRow(T_True, Txt(<<"2">>), Txt(T_60), Txt(T_60), Txt(T_60)) }

DurationTables ==
    UNION {[1..n -> NumberRows] \cup [1..n -> TextRows] : n \in 0..MaxRows}

ServiceTypeIds == {None, <<"1">>, <<"2">>}

(***************************************************************************)
(* SpecDur: one call of get_duration_options.                              *)
(***************************************************************************)
DurInit ==
    /\ pc = "dur_ready"
    /\ service_type_id \in ServiceTypeIds
    /\ services_df \in DurationTables
    /\ service_types_df = <<>>
    /\ duration_options = <<>>
    /\ PriceIdle
    /\ RecurIdle
    /\ GenIdle
    /\ LoopIdle
    /\ BatchIdle
    /\ RestIdle

GetDurationOptions ==
    /\ pc = "dur_ready"
    /\ duration_options' = get_duration_options(service_type_id, services_df)
    /\ pc' = "dur_done"
    /\ UNCHANGED <<service_type_id, priceVars, recurVars, genVars, loopVars,
                   catalogVars, batchVars, restVars>>

DurNext == GetDurationOptions

SpecDur == DurInit /\ [][DurNext]_vars

(***************************************************************************)
(* Properties of get_duration_options.                                     *)
(***************************************************************************)
AllNumeric(r) ==
    /\ IntFloat(r.min_duration) # None
    /\ IntFloat(r.max_duration) # None
    /\ IntFloat(r.duration_granularity) # None

\* Positions of the active rows of the service type whose fields are numbers.
OptionRows ==
    {i \in 1..Len(services_df) :
        /\ Lower(services_df[i].is_active) = True
        /\ service_type_id # None
        /\ CellStr(services_df[i].service_type_id) = service_type_id
        /\ AllNumeric(services_df[i])}

CapOf(r) ==
    IF IntFloat(r.max_duration)[1] = 0 THEN 1440 ELSE IntFloat(r.max_duration)[1]

ProgressionOf(r) ==
    LET lo == IntFloat(r.min_duration)[1]
        g == IntFloat(r.duration_granularity)[1]
    IN  {v \in lo..CapOf(r) : (v - lo) % g = 0} \cup {lo}

ExpectedOptions == UNION {ProgressionOf(services_df[i]) : i \in OptionRows}

\* C20: the result is the ascending, duplicate-free union over the active
\* rows of the service type with numeric fields of the progression from
\* min_duration by the granularity up to max_duration, or up to 1440 when
\* max_duration is 0, together with min_duration; it is empty when no
\* active row matches.
C20_DurationOptions ==
    pc = "dur_done" =>
        /\ Range(duration_options) = ExpectedOptions
        /\ \A i \in 1..(Len(duration_options) - 1) :
             duration_options[i] < duration_options[i + 1]

\* The rows of the file whose three duration fields are all numbers.
NumericOnly(df) == SelectSeq(df, AllNumeric)

\* C21: a row with a min_duration, max_duration or duration_granularity
\* that is not a number contributes nothing: the result is the result for
\* the file without such rows.
C21_NonNumericRowsSkipped ==
    pc = "dur_done" =>
        duration_options = get_duration_options(service_type_id, NumericOnly(services_df))

\* An active row of the service type with a field that is no number, whose
\* min_duration is a number missing from the result, next to a valid row.
C21_Witness ==
    /\ pc = "dur_done"
    /\ duration_options # <<>>
    /\ \E i \in 1..Len(services_df) :
         /\ ~AllNumeric(services_df[i])
         /\ Lower(services_df[i].is_active) = True
         /\ CellStr(services_df[i].service_type_id) = service_type_id
         /\ IntFloat(services_df[i].min_duration) # None
         /\ IntFloat(services_df[i].min_duration)[1] \notin Range(duration_options)

(***************************************************************************)
(* add_months.  A calendar date is a record [year, month, day]; date(y, m, *)
(* d) raises ValueError when the month has no day d.  Years stay within    *)
(* the range of datetime.date.                                             *)
(***************************************************************************)
MaxMonths == 14

Date(y, m, d) == [year |-> y, month |-> m, day |-> d]

IsLeap(y) == y % 4 = 0 /\ (y % 100 # 0 \/ y % 400 = 0)

DaysInMonth_no_leap(y, m) == <<31, 28, 31, 30, 31, 30, 31, 31, 30, 31, 30, 31>>[m]

\* The number of days date() accepts for the month.
DaysInMonth(y, m) ==
    IF m = 2 /\ IsLeap(y) THEN 29
    ELSE <<31, 28, 31, 30, 31, 30, 31, 31, 30, 31, 30, 31>>[m]

\* d - timedelta(days=1)
DayBefore(d) ==
    IF d.day > 1 THEN Date(d.year, d.month, d.day - 1)
    ELSE IF d.month > 1
    THEN Date(d.year, d.month - 1, DaysInMonth(d.year, d.month - 1))
    ELSE Date(d.year - 1, 12, 31)

\* "while month > 12: month -= 12; year += 1"
RECURSIVE YearOverflow(_, _)
YearOverflow(year, month) ==
    IF month > 12 THEN YearOverflow(year + 1, month - 12) ELSE <<year, month>>

\* "while month < 1: month += 12; year -= 1"
RECURSIVE YearUnderflow(_, _)
YearUnderflow(year, month) ==
    IF month < 1 THEN YearUnderflow(year - 1, month + 12) ELSE <<year, month>>

add_months(start, months) ==
    LET over == YearOverflow(start.year, start.month + months)
        ym == YearUnderflow(over[1], over[2])
        year == ym[1]
        month == ym[2]
    IN  IF start.day <= DaysInMonth(year, month)
        THEN Date(year, month, start.day)
        ELSE LET next_month == IF month = 12 THEN Date(year + 1, 1, 1)
                               ELSE Date(year, month + 1, 1)
                 last_day == DayBefore(next_month).day
             IN  Date(year, month, last_day)

StartYears == {1899, 1999, 2024, 2025}

StartDates ==
    {Date(y, m, d) : y \in StartYears, m \in 1..12, d \in {1, 28, 29, 30, 31}}
        \cap {dt \in [year : StartYears, month : 1..12, day : 1..31] :
                dt.day <= DaysInMonth(dt.year, dt.month)}

(***************************************************************************)
(* SpecMonths: one call of add_months.                                     *)
(***************************************************************************)
AddMonthsInit ==
    /\ pc = "am_ready"
    /\ am_start_date \in StartDates
    /\ am_months \in (0 - MaxMonths)..MaxMonths
    /\ am_result = <<>>
    /\ fmt_minutes = 0
    /\ duration_display = <<>>
    /\ MonthIdle
    /\ FormIdle
    /\ PriceIdle
    /\ RecurIdle
    /\ GenIdle
    /\ LoopIdle
    /\ CatalogIdle
    /\ BatchIdle
    /\ DurIdle

AddMonths ==
    /\ pc = "am_ready"
    /\ am_result' = add_months(am_start_date, am_months)
    /\ pc' = "am_done"
    /\ UNCHANGED <<am_start_date, am_months, fmt_minutes, duration_display, monthVars, formVars,
                   priceVars, recurVars, genVars, loopVars, catalogVars, batchVars,
                   durVars>>

AddMonthsNext == AddMonths

SpecMonths == AddMonthsInit /\ [][AddMonthsNext]_vars

\* Length of a calendar month.
MonthLength(y, m) ==
    IF m \in {4, 6, 9, 11} THEN 30
    ELSE IF m # 2 THEN 31
    ELSE IF y % 400 = 0 \/ (y % 4 = 0 /\ y % 100 # 0) THEN 29
    ELSE 28

\* Months counted from year 0.
MonthIndex(d) == 12 * d.year + (d.month - 1)

\* C22: add_months(d, n) is in the calendar month n months after d's
\* month, with day min(d.day, length of that month).
C22_AddMonthsClamps ==
    pc = "am_done" =>
        /\ MonthIndex(am_result) = MonthIndex(am_start_date) + am_months
        /\ am_result.month \in 1..12
        /\ LET len == MonthLength(am_result.year, am_result.month)
           IN  am_result.day = IF am_start_date.day <= len THEN am_start_date.day ELSE len

\* December 31 1999 plus 14 months: two years on, clamped to February 28 2001.
C22_Witness ==
    /\ pc = "am_done"
    /\ am_start_date = Date(1999, 12, 31)
    /\ am_months = 14
    /\ am_result = Date(2001, 2, 28)

(***************************************************************************)
(* SpecFormat: one call of format_duration_minutes on an integer.          *)
(***************************************************************************)
MaxMinutes == 3000

FormatInit ==
    /\ pc = "fmt_ready"
    /\ fmt_minutes \in 0..MaxMinutes
    /\ duration_display = <<>>
    /\ am_start_date = <<>>
    /\ am_months = 0
    /\ am_result = <<>>
    /\ MonthIdle
    /\ FormIdle
    /\ PriceIdle
    /\ RecurIdle
    /\ GenIdle
    /\ LoopIdle
    /\ CatalogIdle
    /\ BatchIdle
    /\ DurIdle

FormatDurationMinutes ==
    /\ pc = "fmt_ready"
    /\ duration_display' = format_duration_minutes(fmt_minutes)
    /\ pc' = "fmt_done"
    /\ UNCHANGED <<fmt_minutes, am_start_date, am_months, am_result, monthVars, formVars,
                   priceVars, recurVars, genVars, loopVars, catalogVars, batchVars,
                   durVars>>

FormatNext == FormatDurationMinutes

SpecFormat == FormatInit /\ [][FormatNext]_vars

\* The components of n with their units, in the order days, hours, minutes.
Components(n) ==
    << [v |-> n \div 1440, one |-> <<"d","a","y">>, many |-> <<"d","a","y","s">>],
       [v |-> (n % 1440) \div 60, one |-> <<"h","o","u","r">>,
        many |-> <<"h","o","u","r","s">>],
       [v |-> n % 60, one |-> <<"m","i","n","u","t","e">>,
        many |-> <<"m","i","n","u","t","e","s">>] >>

NonZero(cs) == SelectSeq(cs, LAMBDA c : c.v > 0)

\* C23: for n >= 0 the text lists, in the order days, hours, minutes,
\* exactly the non-zero components of n, each with a singular unit when it
\* is 1 and a plural unit otherwise, separated by single blanks; it is
\* "0 minutes" when n = 0.
C23_FormatComponents ==
    pc = "fmt_done" =>
        LET words == Split(duration_display)
            cs == NonZero(Components(fmt_minutes))
        IN  IF fmt_minutes = 0
            THEN duration_display = <<"0"," ","m","i","n","u","t","e","s">>
            ELSE /\ Len(words) = 2 * Len(cs)
                 /\ Len(duration_display)
                      = SumOver(1..Len(words), [i \in 1..Len(words) |-> Len(words[i])])
                          + Len(words) - 1
                 /\ \A k \in 1..Len(cs) :
                      /\ \A i \in 1..Len(words[2 * k - 1]) : IsDigit(words[2 * k - 1][i])
                      /\ DigitsVal(words[2 * k - 1], 0) = cs[k].v
                      /\ Head(words[2 * k - 1]) # "0"
                      /\ words[2 * k] = IF cs[k].v = 1 THEN cs[k].one ELSE cs[k].many

\* 1501 minutes: "1 day 1 hour 1 minute", every unit singular.
C23_Witness ==
    /\ pc = "fmt_done"
    /\ fmt_minutes = 1501
    /\ Len(Split(duration_display)) = 6
    /\ Split(duration_display)[6] = <<"m","i","n","u","t","e">>

(***************************************************************************)
(* get_unique_months and filter_appointments_by_month.  An appointment is  *)
(* [date, customer] with date <<d>> for a calendar date d and None when    *)
(* the appointment has none.                                               *)
(***************************************************************************)
\* strftime('%B'): the month names.
MonthNames ==
    << <<"J","a","n","u","a","r","y">>,
       <<"F","e","b","r","u","a","r","y">>,
       <<"M","a","r","c","h">>,
       <<"A","p","r","i","l">>,
       <<"M","a","y">>,
       <<"J","u","n","e">>,
       <<"J","u","l","y">>,
       <<"A","u","g","u","s","t">>,
       <<"S","e","p","t","e","m","b","e","r">>,
       <<"O","c","t","o","b","e","r">>,
       <<"N","o","v","e","m","b","e","r">>,
       <<"D","e","c","e","m","b","e","r">> >>

\* apt_date.strftime('%B %Y')
MonthLabel(d) == MonthNames[d.month] \o <<" ">> \o IntToChars(d.year)

AllAppointments == <<"A","l","l"," ","a","p","p","o","i","n","t","m","e","n","t","s">>

\* Positions of the appointments that have a date.
Dated(apts) == {i \in 1..Len(apts) : apts[i].date # None}

SortedMonths_by_label(months_set) ==
    LET RECURSIVE ByLabel(_)
        ByLabel(S) ==
            IF S = {} THEN <<>>
            ELSE LET m == CHOOSE x \in S : \A y \in S \ {x} : StrLess(x[1], y[1])
                 IN  <<m>> \o ByLabel(S \ {m})
    IN  ByLabel(months_set)

\* sorted(months_set, key=lambda x: (x[1], x[2]))
SortedMonths(months_set) ==
    LET RECURSIVE ByYearMonth(_)
        ByYearMonth(S) ==
            IF S = {} THEN <<>>
            ELSE LET m == CHOOSE x \in S :
                              \A y \in S : x[2] < y[2] \/ (x[2] = y[2] /\ x[3] <= y[3])
                 IN  <<m>> \o ByYearMonth(S \ {m})
    IN  ByYearMonth(months_set)

get_unique_months(apts) ==
    IF apts = <<>> THEN <<>>
    ELSE LET months_set ==
                 {<<MonthLabel(apts[i].date[1]), apts[i].date[1].year,
                    apts[i].date[1].month>> : i \in Dated(apts)}
             sorted_months == SortedMonths(months_set)
         IN  [i \in 1..Len(sorted_months) |-> sorted_months[i][1]]

filter_appointments_by_month_undated_kept(apts, selected) ==
    IF apts = <<>> \/ selected = AllAppointments THEN apts
    ELSE SelectSeq(apts, LAMBDA a : a.date = None \/ MonthLabel(a.date[1]) = selected)

filter_appointments_by_month(apts, selected) ==
    IF apts = <<>> \/ selected = AllAppointments THEN apts
    ELSE SelectSeq(apts, LAMBDA a : a.date # None /\ MonthLabel(a.date[1]) = selected)

AppointmentDateChoices ==
    { None, <<Date(2025, 1, 10)>>, <<Date(2025, 12, 5)>>, <<Date(2025, 12, 31)>>,
      <<Date(2026, 1, 1)>>, <<Date(2026, 2, 28)>> }

\* Appointments told apart by their customer number.
PreviewLists_n(n) ==
    { [i \in 1..n |-> [date |-> ds[i], customer |-> i]] :
        ds \in [1..n -> AppointmentDateChoices] }

AllPreviewLists == UNION {PreviewLists_n(n) : n \in 0..MaxAppointments}

MonthSelections ==
    { AllAppointments, MonthLabel(Date(2025, 1, 1)), MonthLabel(Date(2025, 12, 1)),
      MonthLabel(Date(2026, 1, 1)), MonthLabel(Date(2026, 2, 1)),
      MonthLabel(Date(2026, 3, 1)) }

(***************************************************************************)
(* SpecFilter: the month filter of the appointments list.                  *)
(***************************************************************************)
FilterInit ==
    /\ pc = "months_ready"
    /\ preview_appointments \in AllPreviewLists
    /\ selected_month \in MonthSelections
    /\ unique_months = <<>>
    /\ month_filtered = <<>>
    /\ UtilIdle
    /\ FormIdle
    /\ PriceIdle
    /\ RecurIdle
    /\ GenIdle
    /\ LoopIdle
    /\ CatalogIdle
    /\ BatchIdle
    /\ DurIdle

filterOther == <<preview_appointments, selected_month, utilVars, formVars, priceVars, recurVars,
                 genVars, loopVars, catalogVars, batchVars, durVars>>

GetUniqueMonths ==
    /\ pc = "months_ready"
    /\ unique_months' = get_unique_months(preview_appointments)
    /\ pc' = "months_done"
    /\ UNCHANGED <<month_filtered, filterOther>>

FilterAppointmentsByMonth ==
    /\ pc = "months_ready"
    /\ month_filtered' = filter_appointments_by_month(preview_appointments, selected_month)
    /\ pc' = "filter_done"
    /\ UNCHANGED <<unique_months, filterOther>>

FilterNext == GetUniqueMonths \/ FilterAppointmentsByMonth

SpecFilter == FilterInit /\ [][FilterNext]_vars

\* The (year, month) a label names, read back from its two words; <<0, 0>>
\* when it names none.
MonthOfLabel(label) ==
    LET words == Split(label)
    IN  IF /\ Len(words) = 2
           /\ \E m \in 1..12 : MonthNames[m] = words[1]
           /\ IntParses(words[2])
        THEN <<IntOf(words[2]), CHOOSE m \in 1..12 : MonthNames[m] = words[1]>>
        ELSE <<0, 0>>

YearMonths(apts) == {<<apts[i].date[1].year, apts[i].date[1].month>> : i \in Dated(apts)}

\* C24: one label per distinct (year, month) of the appointment dates, in
\* chronological order, no label twice.
C24_UniqueMonthsChronological ==
    pc = "months_done" =>
        /\ {MonthOfLabel(unique_months[i]) : i \in 1..Len(unique_months)}
               = YearMonths(preview_appointments)
        /\ \A i \in 1..(Len(unique_months) - 1) :
             LET a == MonthOfLabel(unique_months[i])
                 b == MonthOfLabel(unique_months[i + 1])
             IN  12 * a[1] + a[2] < 12 * b[1] + b[2]

\* February 2026 listed first: the labels come out December 2025, January
\* 2026, February 2026, which is not their alphabetical order.
C24_Witness ==
    /\ pc = "months_done"
    /\ Len(preview_appointments) = 3
    /\ preview_appointments[1].date = <<Date(2026, 2, 28)>>
    /\ unique_months = <<MonthLabel(Date(2025, 12, 1)), MonthLabel(Date(2026, 1, 1)),
                         MonthLabel(Date(2026, 2, 1))>>

\* C25: a label keeps exactly the appointments dated in the month it names,
\* in their order; "All appointments" keeps the list as it is; every dated
\* appointment is kept by exactly one label of get_unique_months.
C25_FilterKeepsMonth ==
    pc = "filter_done" =>
        /\ selected_month = AllAppointments => month_filtered = preview_appointments
        /\ selected_month # AllAppointments =>
             month_filtered
               = SelectSeq(preview_appointments,
                           LAMBDA a : /\ a.date # None
                                      /\ <<a.date[1].year, a.date[1].month>>
                                            = MonthOfLabel(selected_month))
        /\ \A i \in Dated(preview_appointments) :
             Cardinality({k \in 1..Len(get_unique_months(preview_appointments)) :
                 preview_appointments[i] \in
                     Range(filter_appointments_by_month(preview_appointments,
                               get_unique_months(preview_appointments)[k]))}) = 1

\* January 2026 selected among January 2025, an undated appointment and
\* January 2026: only the third is kept.
C25_Witness ==
    /\ pc = "filter_done"
    /\ Len(preview_appointments) = 3
    /\ preview_appointments[1].date = <<Date(2025, 1, 10)>>
    /\ preview_appointments[2].date = None
    /\ selected_month = MonthLabel(Date(2026, 1, 1))
    /\ month_filtered = <<preview_appointments[3]>>

(***************************************************************************)
(* The create-appointment form: render_create_appointment_sidebar runs     *)
(* from the top on every interaction, renders the sections in order and    *)
(* st.rerun() abandons the run and starts the next one.  A section's dict  *)
(* is changed in place, so what a render has assigned before a rerun stays *)
(* in st.session_state.  The values the widgets return are the user's      *)
(* choice among the widgets' options.                                      *)
(***************************************************************************)
\* section_data[key] = value
Put(d, key, value) ==
    [k \in DOMAIN d \cup {key} |-> IF k = key THEN value ELSE d[k]]

\* if key in section_data: del section_data[key]
Del(d, key) == [k \in DOMAIN d \ {key} |-> d[k]]

\* if 'appointment_sections' not in st.session_state: ... = [{}]
initialize_appointment_sections(present, sections) ==
    IF ~present THEN <<EmptyDict>> ELSE sections

\* st.session_state['appointment_sections'].append({})
add_appointment_section(sections) == Append(sections, EmptyDict)

\* list.pop(idx), idx counted from 0
Pop(list, idx) ==
    [k \in 1..(Len(list) - 1) |-> IF k <= idx THEN list[k] ELSE list[k + 1]]

\* The list after the call; section_idx counted from 0.
remove_appointment_section(sections, section_idx) ==
    IF 0 <= section_idx /\ section_idx < Len(sections)
    THEN Pop(sections, section_idx)
    ELSE sections

\* str(matching_row.iloc[0]['uses_end_date']).lower(), "false" when no row
\* has the name.
get_service_type_uses_end_date(service_type_name, types) ==
    LET matching_row == SelectSeq(types, LAMBDA t : t.name = service_type_name)
    IN  IF types = <<>> \/ matching_row = <<>> THEN "false"
        ELSE IF Lower(matching_row[1].uses_end_date) = Lower(T_False) THEN "false"
        ELSE IF Lower(matching_row[1].uses_end_date) = True THEN "true"
        ELSE "other"

\* str(matching_row.iloc[0]['id']), None when no row has the name.
get_service_type_id(service_type_name, types) ==
    LET matching_row == SelectSeq(types, LAMBDA t : t.name = service_type_name)
    IN  IF types = <<>> \/ matching_row = <<>> THEN None
        ELSE IntToChars(matching_row[1].id)

\* "Date/Time fields based on uses_end_date": the duration branch stores the
\* duration and clears the end date and time, the other branch stores the
\* end date and time and clears the duration.
TimingShape_end_kept(section_data, uses_end_date, w) ==
    IF uses_end_date = "false"
    THEN Put(section_data, "duration", w.duration)
    ELSE Del(Put(Put(section_data, "end_date", w.end_date), "end_time", w.end_time),
             "duration")

TimingShape(section_data, uses_end_date, w) ==
    IF uses_end_date = "false"
    THEN Del(Del(Put(section_data, "duration", w.duration), "end_date"), "end_time")
    ELSE Del(Put(Put(section_data, "end_date", w.end_date), "end_time", w.end_time),
             "duration")

DefaultCustomer == ("number_of_pets" :> T_1pet) @@ ("price_tier" :> PriceTier1)

\* "Initialize customers list if not exists" and "Ensure all existing
\* customers have price_tier field".
InitCustomers(section_data) ==
    LET with_list == IF "customers" \notin DOMAIN section_data
                     THEN Put(section_data, "customers", <<DefaultCustomer>>)
                     ELSE section_data
    IN  Put(with_list, "customers",
            [k \in 1..Len(with_list["customers"]) |->
                IF "price_tier" \in DOMAIN with_list["customers"][k]
                THEN with_list["customers"][k]
                ELSE Put(with_list["customers"][k], "price_tier", PriceTier1)])

\* The option a select box shows for the stored value: the value when it is
\* an option, the first option otherwise.
Shown(options, current) ==
    IF current \in Range(options) THEN current ELSE options[1]

\* The two select boxes of one customer line, left on the option they show.
CustomerLine(customer) ==
    Put(Put(customer, "number_of_pets",
            Shown(pets_options, Get(customer, "number_of_pets", T_1pet))),
        "price_tier",
        Shown(price_tier_options, Get(customer, "price_tier", PriceTier1)))

\* The customer lines after the loop has shown the first n of them.
CustomerLines_shown(customers_list, n) ==
    [k \in 1..Len(customers_list) |->
        IF k <= n THEN CustomerLine(customers_list[k]) ELSE customers_list[k]]

\* "Allow removing customer if there's more than one"
RemoveCustomerOffered(customers_list) == Len(customers_list) > 1

RemoveSectionOffered_first_too(section_idx) == section_idx >= 0

\* "Remove Section button (hide for first section)"
RemoveSectionOffered(section_idx) == section_idx > 0

RecurringFields_days_kept(section_data, w) ==
    LET checked == Put(section_data, "is_recurring", w.is_recurring)
    IN  IF w.is_recurring
        THEN LET opts == Put(Put(Put(checked,
                                     "recurring_end_date", w.recurring_end_date),
                                 "recurring_every", w.recurring_every),
                             "recurring_frequency", w.recurring_frequency)
             IN  IF w.recurring_frequency = "week"
                 THEN Put(opts, "recurring_days", w.recurring_days)
                 ELSE opts
        ELSE Del(Del(Del(Del(checked, "recurring_end_date"), "recurring_days"),
                     "recurring_frequency"), "recurring_every")

\* The Recurring checkbox and the fields below it.
RecurringFields(section_data, w) ==
    LET checked == Put(section_data, "is_recurring", w.is_recurring)
    IN  IF w.is_recurring
        THEN LET opts == Put(Put(Put(checked,
                                     "recurring_end_date", w.recurring_end_date),
                                 "recurring_every", w.recurring_every),
                             "recurring_frequency", w.recurring_frequency)
             IN  IF w.recurring_frequency = "week"
                 THEN Put(opts, "recurring_days", w.recurring_days)
                 ELSE Del(opts, "recurring_days")
        ELSE Del(Del(Del(Del(checked, "recurring_end_date"), "recurring_days"),
                     "recurring_frequency"), "recurring_every")

\* section_data when the customer lines are reached: service type, start
\* and timing fields assigned, the customers list in place.
SectionAtCustomers(section_data, types, w) ==
    LET uses_end_date == get_service_type_uses_end_date(w.service_type, types)
        typed == Put(Put(section_data, "service_type", w.service_type),
                     "uses_end_date", uses_end_date)
        started == Put(Put(typed, "start_date", w.start_date),
                       "start_time", w.start_time)
    IN  InitCustomers(TimingShape(started, uses_end_date, w))

\* section_data when the Remove Section button is reached.
SectionAtEnd(section_data, types, w) ==
    LET at_customers == SectionAtCustomers(section_data, types, w)
        lines == CustomerLines_shown(at_customers["customers"],
                                     Len(at_customers["customers"]))
        paid == Put(Put(at_customers, "customers", lines),
                    "staff_pay_tier",
                    Shown(<<"Pay Tier 1", "Pay Tier 2", "Pay Tier 3">>,
                          Get(at_customers, "staff_pay_tier", "Pay Tier 1")))
    IN  RecurringFields(paid, w)

(***************************************************************************)
(* The form's inputs: two active service types, one timed by a duration    *)
(* and one by an end date, no services (the duration is a number input),   *)
(* and the values the user leaves in the widgets of a section.             *)
(***************************************************************************)
FormType(id, name, uses_end_date) ==
    [id |-> id, name |-> name, is_active |-> T_True, uses_end_date |-> uses_end_date]

FormServiceTypes ==
    <<FormType(1, "Walk", T_False), FormType(2, "Board", True)>>

FormServiceTypeTables == {<<>>, FormServiceTypes}

\* The recurrence widgets: unchecked, weekly on two days, and one choice of
\* end date and interval for each other frequency.
RecurWidgets ==
    {[is_recurring |-> FALSE, recurring_end_date |-> 10, recurring_every |-> 1,
      recurring_frequency |-> "week", recurring_days |-> <<>>],
     [is_recurring |-> TRUE, recurring_end_date |-> 10, recurring_every |-> 1,
      recurring_frequency |-> "week", recurring_days |-> <<"Monday", "Wednesday">>],
     [is_recurring |-> TRUE, recurring_end_date |-> 10, recurring_every |-> 1,
      recurring_frequency |-> "day", recurring_days |-> <<>>],
     [is_recurring |-> TRUE, recurring_end_date |-> 17, recurring_every |-> 2,
      recurring_frequency |-> "month", recurring_days |-> <<>>],
     [is_recurring |-> TRUE, recurring_end_date |-> 17, recurring_every |-> 1,
      recurring_frequency |-> "year", recurring_days |-> <<>>]}

\* The duration widget: a select box over the duration options, a number
\* input left at 60 when there are none.
DurationWidget(service_type, types, services) ==
    LET options == get_duration_options(get_service_type_id(service_type, types),
                                        services)
    IN  IF options # <<>> THEN Range(options) ELSE {60}

\* The user works on the recurrence of the first section and leaves the
\* Recurring checkbox of the later ones unchecked.
RecurWidgetsOf(section_idx) ==
    IF section_idx = 0 THEN RecurWidgets
    ELSE {r \in RecurWidgets : ~r.is_recurring}

\* What the widgets of section section_idx return in one run.
Widgets(section_idx, types, services) ==
    UNION {
        {[service_type |-> t.name, start_date |-> 3, start_time |-> 540,
          duration |-> d, end_date |-> 5, end_time |-> DefaultEndTime,
          is_recurring |-> r.is_recurring,
          recurring_end_date |-> r.recurring_end_date,
          recurring_every |-> r.recurring_every,
          recurring_frequency |-> r.recurring_frequency,
          recurring_days |-> r.recurring_days] :
            d \in DurationWidget(t.name, types, services),
            r \in RecurWidgetsOf(section_idx)} :
        t \in Range(types)}

FormInit ==
    /\ pc = "form_start"
    /\ appointment_sections = <<>>
    /\ appointments = <<>>
    /\ service_types_df \in FormServiceTypeTables
    /\ services_df = <<>>
    /\ render_position = 0
    /\ PriceIdle
    /\ RecurIdle
    /\ LoopIdle
    /\ BatchIdle
    /\ DurIdle
    /\ UtilIdle
    /\ MonthIdle

formOther == <<appointments, catalogVars, priceVars, recurVars, loopVars, batchVars,
               durVars, utilVars, monthVars>>

\* A run of render_create_appointment_sidebar begins: the first one puts the
\* sections list in the session, a later one finds it there.
StartRun ==
    /\ pc \in {"form_start", "form_wait"}
    /\ appointment_sections' =
           initialize_appointment_sections(pc # "form_start", appointment_sections)
    /\ render_position' = 0
    /\ pc' = "form_run"
    /\ UNCHANGED formOther

\* "No service types found": the run returns before it renders a section.
SidebarReturns ==
    /\ pc = "form_run"
    /\ get_service_types(service_types_df) = <<>>
    /\ pc' = "form_wait"
    /\ UNCHANGED <<appointment_sections, render_position>>
    /\ UNCHANGED formOther

\* render_appointment_section runs to its last line with no button pressed.
RenderAppointmentSection ==
    /\ pc = "form_run"
    /\ get_service_types(service_types_df) # <<>>
    /\ render_position < Len(appointment_sections)
    /\ \E w \in Widgets(render_position, get_service_types(service_types_df),
                       services_df) :
           appointment_sections' =
               [appointment_sections EXCEPT ![render_position + 1] =
                   SectionAtEnd(@, get_service_types(service_types_df), w)]
    /\ render_position' = render_position + 1
    /\ UNCHANGED pc
    /\ UNCHANGED formOther

\* The Remove button of customer line customer_idx is pressed: the lines up
\* to it have been shown, the line is popped and the run starts again.
RemoveCustomer ==
    /\ pc = "form_run"
    /\ get_service_types(service_types_df) # <<>>
    /\ render_position < Len(appointment_sections)
    /\ \E w \in Widgets(render_position, get_service_types(service_types_df),
                       services_df) :
           LET section_data ==
                   SectionAtCustomers(appointment_sections[render_position + 1],
                                      get_service_types(service_types_df), w)
               customers_list == section_data["customers"]
           IN  /\ RemoveCustomerOffered(customers_list)
               /\ \E customer_idx \in 0..(Len(customers_list) - 1) :
                      appointment_sections' =
                          [appointment_sections EXCEPT ![render_position + 1] =
                              Put(section_data, "customers",
                                  Pop(CustomerLines_shown(customers_list,
                                                          customer_idx + 1),
                                      customer_idx))]
    /\ render_position' = 0
    /\ UNCHANGED pc
    /\ UNCHANGED formOther

\* The Add Customer button is pressed: a default line is appended and the
\* run starts again.
AddCustomer ==
    /\ pc = "form_run"
    /\ get_service_types(service_types_df) # <<>>
    /\ render_position < Len(appointment_sections)
    /\ \E w \in Widgets(render_position, get_service_types(service_types_df),
                       services_df) :
           LET section_data ==
                   SectionAtCustomers(appointment_sections[render_position + 1],
                                      get_service_types(service_types_df), w)
               customers_list ==
                   CustomerLines_shown(section_data["customers"],
                                       Len(section_data["customers"]))
           IN  /\ Len(customers_list) < MaxCustomers
               /\ appointment_sections' =
                      [appointment_sections EXCEPT ![render_position + 1] =
                          Put(section_data, "customers",
                              Append(customers_list, DefaultCustomer))]
    /\ render_position' = 0
    /\ UNCHANGED pc
    /\ UNCHANGED formOther

\* The Remove Section button is pressed: remove_appointment_section pops the
\* section and the run starts again.
RemoveSection ==
    /\ pc = "form_run"
    /\ get_service_types(service_types_df) # <<>>
    /\ render_position < Len(appointment_sections)
    /\ RemoveSectionOffered(render_position)
    /\ \E w \in Widgets(render_position, get_service_types(service_types_df),
                       services_df) :
           appointment_sections' =
               remove_appointment_section(
                   [appointment_sections EXCEPT ![render_position + 1] =
                       SectionAtEnd(@, get_service_types(service_types_df), w)],
                   render_position)
    /\ render_position' = 0
    /\ UNCHANGED pc
    /\ UNCHANGED formOther

\* The Add Section button is pressed below the last section.
AddSection ==
    /\ pc = "form_run"
    /\ get_service_types(service_types_df) # <<>>
    /\ render_position = Len(appointment_sections)
    /\ Len(appointment_sections) < MaxSections
    /\ appointment_sections' = add_appointment_section(appointment_sections)
    /\ render_position' = 0
    /\ UNCHANGED pc
    /\ UNCHANGED formOther

\* The run reaches the end of the sidebar with no button pressed.
EndRun ==
    /\ pc = "form_run"
    /\ get_service_types(service_types_df) # <<>>
    /\ render_position = Len(appointment_sections)
    /\ pc' = "form_wait"
    /\ UNCHANGED <<appointment_sections, render_position>>
    /\ UNCHANGED formOther

FormNext ==
    \/ StartRun
    \/ SidebarReturns
    \/ RenderAppointmentSection
    \/ RemoveCustomer
    \/ AddCustomer
    \/ RemoveSection
    \/ AddSection
    \/ EndRun

SpecForm == FormInit /\ [][FormNext]_vars

(***************************************************************************)
(* Properties of the create-appointment form.                              *)
(***************************************************************************)
\* The positions (from 1) of the sections whose render has run to its last
\* line in the current run.
Rendered ==
    IF get_service_types(service_types_df) = <<>> THEN {}
    ELSE IF pc = "form_run" THEN 1..render_position
    ELSE IF pc = "form_wait" THEN 1..Len(appointment_sections)
    ELSE {}

Has(section, key) == key \in DOMAIN section

DurationShape(section) ==
    /\ Has(section, "duration")
    /\ ~Has(section, "end_date")
    /\ ~Has(section, "end_time")

EndDateShape(section) ==
    /\ Has(section, "end_date")
    /\ Has(section, "end_time")
    /\ ~Has(section, "duration")

\* C26: after every completed render of a section, whatever service types
\* were selected in the renders before, the section holds exactly one timing
\* shape: a duration and no end date or end time when uses_end_date is
\* 'false', an end date and an end time and no duration otherwise.  The same
\* holds of a section whose render a rerun has cut short.
C26_OneTimingShape ==
    /\ \A i \in Rendered : Has(appointment_sections[i], "uses_end_date")
    /\ \A i \in 1..Len(appointment_sections) :
           LET s == appointment_sections[i]
           IN  Has(s, "uses_end_date") =>
                   IF s["uses_end_date"] = "false"
                   THEN DurationShape(s)
                   ELSE EndDateShape(s)

\* A run has rendered a duration-based first section and, after it, an
\* end-date-based second section.
C26_Witness ==
    /\ pc = "form_wait"
    /\ Len(appointment_sections) = 2
    /\ Rendered = {1, 2}
    /\ appointment_sections[1]["service_type"] = "Walk"
    /\ appointment_sections[1]["uses_end_date"] = "false"
    /\ appointment_sections[1]["duration"] = 60
    /\ appointment_sections[2]["service_type"] = "Board"
    /\ appointment_sections[2]["uses_end_date"] = "true"
    /\ appointment_sections[2]["end_date"] = 5
    /\ ~Has(appointment_sections[2], "duration")

RecurringKeys ==
    {"recurring_end_date", "recurring_days", "recurring_frequency", "recurring_every"}

\* C27: after a render with Recurring checked and the frequency day, month or
\* year the section has no recurring_days and the materialiser gives it the
\* single date start_date, whatever the end date and the interval; after a
\* render with Recurring unchecked none of the four recurring_* keys is left.
C27_RecurringFieldsCleared ==
    /\ \A i \in Rendered : Has(appointment_sections[i], "is_recurring")
    /\ \A i \in 1..Len(appointment_sections) :
           LET s == appointment_sections[i]
           IN  Has(s, "is_recurring") =>
                   /\ (s["is_recurring"] /\ s["recurring_frequency"] # "week") =>
                          /\ s["recurring_frequency"] \in {"day", "month", "year"}
                          /\ ~Has(s, "recurring_days")
                          /\ AppointmentDates(s) = <<s["start_date"]>>
                   /\ ~s["is_recurring"] => RecurringKeys \cap DOMAIN s = {}

\* The first section recurs every 2 months until day 17 and gets the single
\* date 3; the second section has Recurring unchecked.
C27_Witness ==
    /\ pc = "form_wait"
    /\ Rendered = {1, 2}
    /\ appointment_sections[1]["is_recurring"]
    /\ appointment_sections[1]["recurring_frequency"] = "month"
    /\ appointment_sections[1]["recurring_every"] = 2
    /\ appointment_sections[1]["recurring_end_date"] = 17
    /\ appointment_sections[1]["start_date"] = 3
    /\ AppointmentDates(appointment_sections[1]) = <<3>>
    /\ ~appointment_sections[2]["is_recurring"]

CustomerCount(section) ==
    IF Has(section, "customers") THEN Len(section["customers"]) ELSE 0

\* The sections list once initialize_appointment_sections has run: at least
\* one section, at least one customer line in every section that was
\* rendered, and no change by a removal at an index outside the list.
FormShape ==
    pc # "form_start" =>
        /\ Len(appointment_sections) >= 1
        /\ \A i \in Rendered : CustomerCount(appointment_sections[i]) >= 1
        /\ \A i \in 1..Len(appointment_sections) :
               Has(appointment_sections[i], "customers") =>
                   CustomerCount(appointment_sections[i]) >= 1
        /\ \A section_idx \in {-2, -1, Len(appointment_sections),
                               Len(appointment_sections) + 1} :
               remove_appointment_section(appointment_sections, section_idx)
                   = appointment_sections

\* One operation of the form: a longer list is the old one with one empty
\* section appended; a shorter list is the old one without the section under
\* render, which is not the first; a section's customer lines grow by one
\* default line at the end or shrink by one line from more than one, counted
\* from the lines the render starts with.
FormStep ==
    LET old == appointment_sections
        new == appointment_sections'
    IN  pc # "form_start" =>
            /\ Len(new) \in {Len(old) - 1, Len(old), Len(old) + 1}
            /\ Len(new) = Len(old) + 1 => new = Append(old, EmptyDict)
            /\ Len(new) = Len(old) - 1 =>
                   /\ render_position > 0
                   /\ \A k \in 1..Len(new) :
                          new[k] = IF k <= render_position THEN old[k] ELSE old[k + 1]
            /\ Len(new) = Len(old) =>
                   \A k \in 1..Len(old) :
                       LET n == CustomerCount(InitCustomers(old[k]))
                       IN  \/ new[k] = old[k]
                           \/ CustomerCount(new[k]) = n
                           \/ /\ CustomerCount(new[k]) = n + 1
                              /\ new[k]["customers"][n + 1] = DefaultCustomer
                           \/ /\ CustomerCount(new[k]) = n - 1
                              /\ n > 1

\* C28: after initialize_appointment_sections, under any sequence of Add
\* Section, Remove Section (offered for index > 0), Add Customer and Remove
\* customer (offered while there is more than one line), the list always has
\* at least one section, every rendered section has at least one customer
\* line, and remove_appointment_section with an out-of-range index leaves the
\* list unchanged.
C28_FormKeepsSectionsAndCustomers == [](FormShape) /\ [][FormStep]_vars

\* Sections and customers were added up to the bounds and a run has rendered
\* them all: the first section has the most customer lines, the last has the
\* one line its first render gave it.
C28_Witness ==
    /\ pc = "form_wait"
    /\ Len(appointment_sections) = MaxSections
    /\ Rendered = 1..MaxSections
    /\ CustomerCount(appointment_sections[1]) = MaxCustomers
    /\ CustomerCount(appointment_sections[MaxSections]) = 1

====
